---------------------------- MODULE Spec2Model ----------------------------
(***************************************************************************)
(* Model of the login UI test suite: the driver bootstrap                  *)
(* (utils/driver_factory.py), the per-test driver fixture                  *)
(* (tests/conftest.py), the page interaction layer (pages/base_page.py)    *)
(* and the login page object (pages/login_page.py).                        *)
(*                                                                         *)
(* The browser, the driver binaries and the file system are the            *)
(* environment: every call into them that can fail is a nondeterministic   *)
(* choice between success and failure.                                     *)
(***************************************************************************)
EXTENDS Integers, Sequences, FiniteSets, TLC

VARIABLES
    \* ---- driver bootstrap and fixture ----
    sess,             \* every browser session started so far (a sequence of records)
    fpc,              \* position of the fixture / create_driver
    testNo,           \* number of the test case being run
    browser,          \* create_driver's browser_name once lower-cased
    platform,         \* os.name
    browser_name,     \* --browser option of the run: the browser_name argument
    headless,         \* --headless option of the run: the headless argument
    HEADLESS,         \* Config.HEADLESS
    method,           \* Chrome creation method being tried (1..4)
    inFallback,       \* create_driver is inside its Edge fallback
    attempts,         \* launch attempts of the current create_driver call
    driver,           \* local `driver` of the _create_*_driver running (0 = None)
    driver_instance,  \* the fixture's driver_instance (0 = None)
    created,          \* how the current create_driver call ended
    err,              \* the exception create_driver's handler caught
    rep_call,         \* request.node.rep_call of the current test
    \* ---- file system and direct calls of the static helpers ----
    dirs,             \* directories that exist
    blocked,          \* directories that cannot be created
    files,            \* screenshot files written
    call,             \* the last quit_driver / take_screenshot call and its result
    \* ---- page interaction layer and login page ----
    opName,           \* the page operation running (or last run)
    opLoc,            \* its locator argument
    opTimeout,        \* its timeout argument, in seconds (NoTimeout = None)
    opFlag,           \* its boolean argument (clear_first, remember_me)
    ppc,              \* position inside the operation
    waitFor,          \* which wait of the operation is polling
    waitKind,         \* the expected condition of that wait
    waitLoc,          \* the locator of that wait
    endTime,          \* end_time of that wait
    now,              \* the clock, in poll intervals since the operation began
    lastSeen,         \* the element state the last browser query found
    sawTrue,          \* a poll of the current wait found its condition true
    acts,             \* the element actions the operation performed, in order
    obs,              \* the (locator, condition) pairs its waits observed true
    result,           \* how the operation ended
    opText,           \* its text arguments (username, password)
    page,             \* the page the application under test shows
    uval,             \* contents of the username field
    pval,             \* contents of the password field
    hist,             \* the calls a test made so far, with their outcomes
    fault,            \* the last failure inside the operation running
    log,              \* what the operation running wrote to the log about its waits
    dom,              \* the messages in the DOM while is_error_message_displayed runs
    scan,             \* the pattern and the element its scan has reached
    \* ---- test_sql_injection_protection ----
    tpc,              \* position of the test
    payloadNo,        \* index of the payload being submitted
    verdict,          \* outcome of the test
    shown,            \* what the page displays after the login attempt
    clean             \* after no payload so far was the session logged in or an
                      \* SQL keyword displayed

factoryVars == <<sess, fpc, testNo, browser, platform, method, inFallback, attempts,
                 driver, driver_instance, created, err, rep_call, browser_name, headless,
                 HEADLESS>>
optVars == <<browser_name, headless, HEADLESS>>
fsVars == <<dirs, blocked, files, call>>
pageVars == <<opName, opLoc, opTimeout, opFlag, ppc, waitFor, waitKind, waitLoc, endTime,
              now, lastSeen, sawTrue, acts, obs, result, opText, page, uval, pval,
              hist, fault, log, dom, scan, tpc, payloadNo, verdict, shown, clean>>
testVars == <<tpc, payloadNo, verdict, shown, clean>>
scanVars == <<dom, scan>>
vars == <<factoryVars, fsVars, pageVars>>

-----------------------------------------------------------------------------
(* Bounds *)

\* test cases of one suite run
MaxTests == 2
\* direct calls of quit_driver on one handle
MaxQuits == 2
\* handles of the direct-call specification
MaxHandles == 2
\* largest explicit timeout argument, in seconds
MaxTimeout == 2
\* calls of page object methods one test makes
MaxCalls == 3

-----------------------------------------------------------------------------
(* Values *)

None == 0

SupportedBrowsers == {"chrome", "firefox", "edge", "safari"}
BrowserNames == SupportedBrowsers \cup {"opera"}

\* the names as a user may spell them
BrowserArgs == BrowserNames \cup {"Chrome", "FIREFOX"}

\* the name is compared as it was given
LowerName_keeps_case(name) == name

\* str.lower() on a browser name
LowerName(name) ==
    CASE name = "Chrome" -> "chrome"
      [] name = "FIREFOX" -> "firefox"
      [] OTHER -> name

SessionStates == {"open", "dead", "closed"}

\* the launch strategies of the spec: (a) managed driver, (b) cache cleared and
\* reinstalled, (c) system driver, (d) minimal arguments
StrategyOf(kind, k) ==
    IF kind = "chrome" THEN <<"a", "b", "c", "d">>[k]
    ELSE IF kind = "safari" THEN "c"
    ELSE "a"

NewSession(kind, t) ==
    [kind |-> kind, st |-> "open", test |-> t,
     verified |-> FALSE, configured |-> FALSE, yielded |-> FALSE, fixtureQuits |-> 0,
     quits |-> 0, outcome |-> "none", shot |-> FALSE]

\* Config.get_browser_options(browser_name)['arguments']: the arguments of the
\* kind, and '--headless' appended when Config.HEADLESS is set
get_browser_options(kind, cfg_headless) ==
    (IF kind = "chrome"
     THEN <<"--disable-extensions", "--disable-gpu", "--no-sandbox",
            "--disable-dev-shm-usage">>
     ELSE <<"--disable-extensions", "--disable-gpu">>)
      \o (IF cfg_headless THEN <<"--headless">> ELSE <<>>)

\* the stability and SSL arguments _create_chrome_driver adds
ChromeArguments ==
    <<"--no-sandbox", "--disable-dev-shm-usage", "--disable-gpu",
      "--ignore-ssl-errors-spki-list", "--ignore-certificate-errors",
      "--allow-running-insecure-content", "--disable-web-security",
      "--allow-insecure-localhost", "--ignore-ssl-errors",
      "--ignore-certificate-errors-spki-list", "--disable-extensions",
      "--disable-plugins", "--user-data-dir=chrome-test-profile",
      "--disable-background-timer-throttling",
      "--disable-backgrounding-occluded-windows", "--disable-renderer-backgrounding",
      "--disable-features=TranslateUI", "--disable-ipc-flooding-protection">>

\* minimal_options of the fourth Chrome method
MinimalArguments ==
    <<"--no-sandbox", "--disable-dev-shm-usage", "--disable-gpu",
      "--remote-debugging-port=9223", "--user-data-dir=chrome-minimal-profile">>

\* if headless: options.add_argument('--headless')
HeadlessArgument(flag) == IF flag THEN <<"--headless">> ELSE <<>>

\* the arguments the k-th launch of a browser kind is started with
LaunchArguments(kind, k, flag, cfg_headless) ==
    CASE kind = "chrome" /\ k < 4 ->
             get_browser_options(kind, cfg_headless) \o ChromeArguments
                 \o HeadlessArgument(flag)
      [] kind = "chrome" /\ k = 4 -> MinimalArguments \o HeadlessArgument(flag)
      [] kind \in {"firefox", "edge"} ->
             get_browser_options(kind, cfg_headless) \o HeadlessArgument(flag)
      [] OTHER -> <<>>

Attempt(kind, k, ok) ==
    [kind |-> kind, strategy |-> StrategyOf(kind, k), ok |-> ok,
     args |-> LaunchArguments(kind, k, headless, HEADLESS)]

\* paths are sequences of components
ScreenshotPath == <<"reports", "screenshots", "test_FAILED.png">>
Paths == { <<"shot.png">>, <<"reports", "shot.png">>, ScreenshotPath }

Dirname(p) == SubSeq(p, 1, Len(p) - 1)
Prefixes(d) == { SubSeq(d, 1, i) : i \in 1..Len(d) }
AllDirs == UNION { Prefixes(Dirname(p)) : p \in Paths }

\* timeout=None
NoTimeout == -1

NoResult == [status |-> "none", value |-> "none", exc |-> "none"]

\* an element as a test reads it: whether it is in the DOM and displayed, and
\* its text
ElementView(st, text) == [st |-> st, text |-> text]
NoElement == ElementView("absent", <<>>)

\* nothing displayed yet
NoView == [logged |-> FALSE, notice |-> NoElement, alert |-> NoElement]

\* no message in the DOM
NoDom == [notice |-> NoElement, by |-> <<>>]

\* no scan under way
NoScan == [pattern |-> 0, elem |-> 0]

\* no text argument
NoText == [username |-> <<>>, password |-> <<>>]

\* no page operation has run
InitOp ==
    /\ opName = "none"
    /\ opLoc = "none"
    /\ opTimeout = NoTimeout
    /\ opFlag = FALSE
    /\ ppc = "idle"
    /\ waitFor = "none"
    /\ waitKind = "none"
    /\ waitLoc = "none"
    /\ endTime = 0
    /\ now = 0
    /\ lastSeen = "none"
    /\ sawTrue = FALSE
    /\ acts = <<>>
    /\ obs = {}
    /\ result = NoResult
    /\ opText = NoText
    /\ hist = <<>>
    /\ fault = "none"
    /\ log = <<>>
    /\ dom = NoDom
    /\ scan = NoScan
    /\ tpc = "none"
    /\ payloadNo = 1
    /\ verdict = "none"
    /\ shown = NoView
    /\ clean = TRUE

\* the page layer is idle on an application about which nothing is assumed
InitPage ==
    /\ InitOp
    /\ page = "any"
    /\ uval = <<>>
    /\ pval = <<>>

-----------------------------------------------------------------------------
(* The browser session as the driver library presents it *)

\* driver.quit(): closes an open session; fails on a session that has died; on a
\* session already quit the second call fails or is a no-op (q), and the session
\* stays closed.
DriverQuit(ss, h, q) ==
    IF ss[h].st = "open"
    THEN [raised |-> FALSE, sess |-> [ss EXCEPT ![h].st = "closed", ![h].quits = @ + 1]]
    ELSE [raised |-> (ss[h].st = "dead" \/ q), sess |-> [ss EXCEPT ![h].quits = @ + 1]]

\* driver.save_screenshot(path): None has no such attribute, a session that is
\* not open cannot answer, an open one writes the file.
SaveScreenshotRaises(ss, h) == h = None \/ ss[h].st # "open"

\* os.makedirs(d, exist_ok=True): the empty path is an error; otherwise the
\* missing ancestors are created outermost first, up to the first one that
\* cannot be created.
makedirs(d, ds, blk) ==
    LET bad == { p \in Prefixes(d) : p \notin ds /\ p \in blk }
        made == { p \in Prefixes(d) : \A b \in bad : Len(p) < Len(b) }
    IN IF d = <<>> THEN [raised |-> TRUE, dirs |-> ds]
       ELSE [raised |-> bad # {}, dirs |-> ds \cup made]

-----------------------------------------------------------------------------
(* DriverFactory.quit_driver and DriverFactory.take_screenshot *)

quit_driver_propagates(ss, h, q) ==
    IF h # None THEN DriverQuit(ss, h, q) ELSE [raised |-> FALSE, sess |-> ss]

\* try: if driver: driver.quit()   except Exception: log
quit_driver(ss, h, q) ==
    IF h # None
    THEN [raised |-> FALSE, sess |-> DriverQuit(ss, h, q).sess]
    ELSE [raised |-> FALSE, sess |-> ss]

take_screenshot_returns_path_on_failure(ss, h, path, ds, blk, fl) ==
    LET m == makedirs(Dirname(path), ds, blk)
    IN IF m.raised \/ SaveScreenshotRaises(ss, h)
       THEN [raised |-> FALSE, ret |-> path, dirs |-> m.dirs, files |-> fl]
       ELSE [raised |-> FALSE, ret |-> path, dirs |-> m.dirs, files |-> fl \cup {path}]

\* try: os.makedirs(dirname); driver.save_screenshot(path); return path
\* except Exception: log; return None
take_screenshot(ss, h, path, ds, blk, fl) ==
    LET m == makedirs(Dirname(path), ds, blk)
    IN IF m.raised
       THEN [raised |-> FALSE, ret |-> <<>>, dirs |-> m.dirs, files |-> fl]
       ELSE IF SaveScreenshotRaises(ss, h)
       THEN [raised |-> FALSE, ret |-> <<>>, dirs |-> m.dirs, files |-> fl]
       ELSE [raised |-> FALSE, ret |-> path, dirs |-> m.dirs, files |-> fl \cup {path}]

NoCall == [op |-> "none", h |-> None, path |-> <<>>, raised |-> FALSE, ret |-> <<>>,
           before |-> "none", nth |-> 0, dirsBefore |-> {}]

-----------------------------------------------------------------------------
(* DriverFactory.create_driver, run by the driver fixture of each test *)

\* the nested handlers of _create_chrome_driver: method k+1 is in the except
\* clause of method k
NextMethodSkipsSystemDriver(k) == IF k = 2 THEN 4 ELSE k + 1

NextMethod(k) == k + 1

LastMethod == 4

\* the browser create_driver's handler falls back to
NoFallbackKind(b) == "none"

FallbackKind(b) == IF b = "chrome" THEN "edge" ELSE "none"

\* the bare raise that ends create_driver's handler: the inner try of the
\* fallback has swallowed Edge's exception (except: pass), so the exception
\* being handled is again the one the handler caught
Reraised_edge_failure(caught, edge_failure) == edge_failure

Reraised(caught, edge_failure) == caught

\* the browser kind a launch at this point starts
LaunchKind == IF inFallback THEN FallbackKind(browser) ELSE browser

\* request.node is the item of the test that runs: the reports of the tests
\* before it are out of the fixture's reach
NewItem(ss) == [h \in 1..Len(ss) |-> [ss[h] EXCEPT !.outcome = "none", !.shot = FALSE]]

\* the fixture begins a test: driver_instance = None, then create_driver
\* lower-cases the browser name and dispatches on it
FixtureSetup ==
    /\ fpc = "idle"
    /\ testNo < MaxTests
    /\ testNo' = testNo + 1
    /\ attempts' = <<>>
    /\ driver' = None
    /\ driver_instance' = None
    /\ created' = "running"
    /\ rep_call' = "absent"
    /\ inFallback' = FALSE
    /\ method' = 1
    /\ browser' = LowerName(browser_name)
    /\ IF browser' = "chrome" THEN fpc' = "chrome_options" /\ err' = "none"
       ELSE IF browser' \in {"firefox", "edge"} THEN fpc' = "launch" /\ err' = "none"
       ELSE IF browser' = "safari"
       THEN IF platform = "posix" THEN fpc' = "launch" /\ err' = "none"
            ELSE fpc' = "except" /\ err' = "platform"
       ELSE fpc' = "except" /\ err' = "unsupported"
    /\ sess' = NewItem(sess)
    /\ UNCHANGED <<platform, optVars, fsVars, pageVars>>

\* _create_chrome_driver up to the creation of the profile directory
ChromeOptions ==
    /\ fpc = "chrome_options"
    /\ \E ok \in BOOLEAN :
         IF ok THEN fpc' = "method" /\ err' = err
         ELSE fpc' = "except" /\ err' = "options"
    /\ UNCHANGED <<sess, testNo, browser, platform, optVars, method, inFallback, attempts,
                   driver, driver_instance, created, rep_call, fsVars, pageVars>>

\* one of the four Chrome creation methods
ChromeMethod ==
    /\ fpc = "method"
    /\ \E ok \in BOOLEAN :
         /\ attempts' = Append(attempts, Attempt("chrome", method, ok))
         /\ IF ok
            THEN /\ sess' = Append(sess, NewSession("chrome", testNo))
                 /\ driver' = Len(sess) + 1
                 /\ fpc' = "verify"
                 /\ UNCHANGED <<method, err>>
            ELSE /\ UNCHANGED <<sess, driver>>
                 /\ IF method < LastMethod
                    THEN method' = NextMethod(method) /\ UNCHANGED <<fpc, err>>
                    ELSE fpc' = "except" /\ err' = "launch" /\ UNCHANGED method
    /\ UNCHANGED <<testNo, browser, platform, optVars, inFallback, driver_instance, created,
                   rep_call, fsVars, pageVars>>

\* driver.get("about:blank"); on failure driver.quit() and raise
ChromeVerify ==
    /\ fpc = "verify"
    /\ \E ok \in BOOLEAN, q \in BOOLEAN :
         IF ok /\ sess[driver].st = "open"
         THEN /\ sess' = [sess EXCEPT ![driver].verified = TRUE]
              /\ fpc' = "configure"
              /\ err' = err
         ELSE /\ ~ok
              /\ sess' = DriverQuit(sess, driver, q).sess
              /\ fpc' = "except"
              /\ err' = "verify"
    /\ UNCHANGED <<testNo, browser, platform, optVars, method, inFallback, attempts, driver,
                   driver_instance, created, rep_call, fsVars, pageVars>>

\* webdriver.Firefox / Edge / Safari: the one launch of the other browser kinds,
\* and the Edge launch of the fallback
Launch ==
    /\ fpc = "launch"
    /\ \E ok \in BOOLEAN :
         /\ attempts' = Append(attempts, Attempt(LaunchKind, 1, ok))
         /\ IF ok
            THEN /\ sess' = Append(sess, NewSession(LaunchKind, testNo))
                 /\ driver' = Len(sess) + 1
                 /\ fpc' = "configure"
                 /\ err' = err
            ELSE /\ UNCHANGED <<sess, driver>>
                 /\ IF inFallback
                    THEN fpc' = "raise" /\ err' = Reraised(err, "edge_launch")
                    ELSE fpc' = "except" /\ err' = "launch"
    /\ UNCHANGED <<testNo, browser, platform, optVars, method, inFallback, driver_instance,
                   created, rep_call, fsVars, pageVars>>

\* driver.implicitly_wait(Config.IMPLICIT_WAIT); driver.maximize_window(); return driver
Configure ==
    /\ fpc = "configure"
    /\ \E ok \in BOOLEAN :
         IF ok /\ sess[driver].st = "open"
         THEN /\ sess' = [sess EXCEPT ![driver].configured = TRUE]
              /\ fpc' = "return"
              /\ err' = err
         ELSE /\ ~ok
              /\ sess' = sess
              /\ IF inFallback
                 THEN fpc' = "raise" /\ err' = Reraised(err, "edge_configure")
                 ELSE fpc' = "except" /\ err' = "configure"
    /\ UNCHANGED <<testNo, browser, platform, optVars, method, inFallback, attempts, driver,
                   driver_instance, created, rep_call, fsVars, pageVars>>

\* create_driver's handler: Edge as the fallback of Chrome, else re-raise
CreateDriverExcept ==
    /\ fpc = "except"
    /\ IF FallbackKind(browser) # "none"
       THEN inFallback' = TRUE /\ fpc' = "launch" /\ driver' = None
       ELSE fpc' = "raise" /\ UNCHANGED <<inFallback, driver>>
    /\ UNCHANGED <<sess, testNo, browser, platform, optVars, method, attempts, driver_instance,
                   created, err, rep_call, fsVars, pageVars>>

\* create_driver returns the session; the fixture yields it to the test
CreateDriverReturn ==
    /\ fpc = "return"
    /\ driver_instance' = driver
    /\ sess' = [sess EXCEPT ![driver].yielded = TRUE]
    /\ created' = "returned"
    /\ fpc' = "test"
    /\ UNCHANGED <<testNo, browser, platform, optVars, method, inFallback, attempts,
                   driver, err, rep_call, fsVars, pageVars>>

\* create_driver re-raises the exception its handler caught
CreateDriverRaise ==
    /\ fpc = "raise"
    /\ created' = "raised"
    /\ fpc' = "raised"
    /\ UNCHANGED <<sess, testNo, browser, platform, optVars, method, inFallback, attempts,
                   driver, driver_instance, err, rep_call, fsVars, pageVars>>

\* the locals of a finished create_driver call and of a finished test
EndOfTest ==
    /\ attempts' = <<>>
    /\ driver' = None
    /\ driver_instance' = None
    /\ created' = "none"
    /\ err' = "none"
    /\ rep_call' = "absent"
    /\ method' = 1
    /\ inFallback' = FALSE

\* the fixture logs the failure and re-raises; its finally clause finds
\* driver_instance None, and the test is reported as an error
FixtureReraise ==
    /\ fpc = "raised"
    /\ fpc' = "idle"
    /\ EndOfTest
    /\ UNCHANGED <<sess, testNo, browser, platform, optVars, fsVars, pageVars>>

-----------------------------------------------------------------------------
(* The driver fixture around the test (tests/conftest.py) *)

\* the test runs with the session; pytest_runtest_makereport stores rep_call
\* unless a later fixture's setup failed and the test was never called
TestBody ==
    /\ fpc = "test"
    /\ \E outcome \in {"passed", "failed", "raised", "setup_error"} :
         /\ rep_call' = CASE outcome = "passed" -> "passed"
                          [] outcome = "setup_error" -> "absent"
                          [] OTHER -> "failed"
         \* an exception of the test body is reported as a failure like a failed assertion
         /\ sess' = [sess EXCEPT ![driver_instance].outcome =
                                    IF outcome = "raised" THEN "failed" ELSE outcome]
    /\ fpc' = "teardown"
    /\ UNCHANGED <<testNo, browser, platform, optVars, method, inFallback, attempts,
                   driver, driver_instance, created, err, fsVars, pageVars>>

\* DriverFactory.quit_driver(driver_instance) of the finally clause
TeardownQuit(ss, h, q, failed) ==
    [quit_driver(ss, h, q).sess EXCEPT ![h].fixtureQuits = @ + 1]

\* finally: if driver_instance: screenshot on failure, then quit_driver
Teardown ==
    /\ fpc = "teardown"
    /\ driver_instance # None
    /\ LET failed == rep_call = "failed"
           shot == take_screenshot(sess, driver_instance, ScreenshotPath, dirs, blocked, files)
       IN /\ IF failed
             THEN /\ dirs' = shot.dirs
                  /\ files' = shot.files
                  /\ call' = [NoCall EXCEPT !.op = "take_screenshot", !.h = driver_instance,
                                            !.path = ScreenshotPath, !.raised = shot.raised,
                                            !.ret = shot.ret,
                                            !.before = sess[driver_instance].st,
                                            !.dirsBefore = dirs]
             ELSE UNCHANGED <<dirs, files, call>>
          /\ \E q \in BOOLEAN :
               sess' = [TeardownQuit(sess, driver_instance, q, failed)
                           EXCEPT ![driver_instance].shot = failed /\ shot.ret # <<>>]
    /\ fpc' = "idle"
    /\ EndOfTest
    /\ UNCHANGED <<testNo, browser, platform, optVars, blocked, pageVars>>

\* the environment: a running browser dies
Crash ==
    /\ \E h \in 1..Len(sess) :
         /\ sess[h].st = "open"
         /\ sess' = [sess EXCEPT ![h].st = "dead"]
    /\ UNCHANGED <<fpc, testNo, browser, platform, optVars, method, inFallback, attempts, driver,
                   driver_instance, created, err, rep_call, fsVars, pageVars>>

InitFs ==
    /\ blocked \in SUBSET AllDirs
    /\ dirs \in SUBSET (AllDirs \ blocked)
    /\ \A d \in dirs : Prefixes(d) \subseteq dirs
    /\ files = {}
    /\ call = NoCall

InitSuite ==
    /\ sess = <<>>
    /\ fpc = "idle"
    /\ testNo = 0
    \* --browser: chrome, firefox, edge, safari, or a name that is none of them
    /\ browser_name \in BrowserNames
    /\ browser = "none"
    \* HEADLESS is not set in the environment; --headless is a store_true option
    \* whose default is Config.HEADLESS
    /\ HEADLESS = FALSE
    /\ headless \in {h \in BOOLEAN : HEADLESS => h}
    \* os.name is read by _create_safari_driver alone
    /\ platform \in (IF browser_name = "safari" THEN {"posix", "nt"} ELSE {"posix"})
    /\ method = 1
    /\ inFallback = FALSE
    /\ attempts = <<>>
    /\ driver = None
    /\ driver_instance = None
    /\ created = "none"
    /\ err = "none"
    /\ rep_call = "absent"
    \* setup_test_environment has created the screenshot directory
    /\ blocked = {}
    /\ dirs = Prefixes(Dirname(ScreenshotPath))
    /\ files = {}
    /\ call = NoCall
    /\ InitPage

NextSuite ==
    \/ FixtureSetup
    \/ ChromeOptions
    \/ ChromeMethod
    \/ ChromeVerify
    \/ Launch
    \/ Configure
    \/ CreateDriverExcept
    \/ CreateDriverReturn
    \/ CreateDriverRaise
    \/ FixtureReraise
    \/ TestBody
    \/ Teardown
    \/ Crash

SpecSuite == InitSuite /\ [][NextSuite]_vars

-----------------------------------------------------------------------------
(* Direct calls of create_driver (test_webdriver.py, utils/locator_discovery.py) *)

\* driver = None; driver = DriverFactory.create_driver(name, headless=...)
CallCreateDriver == FixtureSetup

\* the caller's except clause reports the failure
CallerFails == FixtureReraise

\* the caller used the session; finally: if driver: driver.quit()
CallerQuits ==
    /\ fpc = "test"
    /\ \E q \in BOOLEAN : sess' = DriverQuit(sess, driver_instance, q).sess
    /\ fpc' = "idle"
    /\ EndOfTest
    /\ UNCHANGED <<testNo, browser, platform, optVars, fsVars, pageVars>>

\* any caller: every name, either flag, whatever Config.HEADLESS is
InitCreate ==
    /\ sess = <<>>
    /\ fpc = "idle"
    /\ testNo = 0
    /\ browser_name \in BrowserArgs
    /\ browser = "none"
    /\ HEADLESS \in BOOLEAN
    /\ headless \in BOOLEAN
    /\ platform \in (IF browser_name = "safari" THEN {"posix", "nt"} ELSE {"posix"})
    /\ method = 1
    /\ inFallback = FALSE
    /\ attempts = <<>>
    /\ driver = None
    /\ driver_instance = None
    /\ created = "none"
    /\ err = "none"
    /\ rep_call = "absent"
    /\ blocked = {}
    /\ dirs = {}
    /\ files = {}
    /\ call = NoCall
    /\ InitPage

NextCreate ==
    \/ CallCreateDriver
    \/ ChromeOptions
    \/ ChromeMethod
    \/ ChromeVerify
    \/ Launch
    \/ Configure
    \/ CreateDriverExcept
    \/ CreateDriverReturn
    \/ CreateDriverRaise
    \/ CallerFails
    \/ CallerQuits
    \/ Crash

SpecCreate == InitCreate /\ [][NextCreate]_vars

-----------------------------------------------------------------------------
(* Direct calls of the static helpers on any handle *)

Handles == {None} \cup (1..Len(sess))

ApiQuitDriver ==
    /\ \E h \in Handles, q \in BOOLEAN :
         /\ h # None => sess[h].quits < MaxQuits
         /\ LET r == quit_driver(sess, h, q)
            IN /\ sess' = r.sess
               /\ call' = [NoCall EXCEPT !.op = "quit_driver", !.h = h,
                                         !.raised = r.raised,
                                         !.before = IF h = None THEN "none" ELSE sess[h].st,
                                         !.nth = IF h = None THEN 1 ELSE sess[h].quits + 1]
    /\ UNCHANGED <<fpc, testNo, browser, platform, optVars, method, inFallback, attempts, driver,
                   driver_instance, created, err, rep_call, dirs, blocked, files, pageVars>>

ApiTakeScreenshot ==
    /\ \E h \in Handles, path \in Paths :
         LET r == take_screenshot(sess, h, path, dirs, blocked, files)
         IN /\ dirs' = r.dirs
            /\ files' = r.files
            /\ call' = [NoCall EXCEPT !.op = "take_screenshot", !.h = h, !.path = path,
                                      !.raised = r.raised, !.ret = r.ret,
                                      !.before = IF h = None THEN "none" ELSE sess[h].st,
                                      !.dirsBefore = dirs]
    /\ UNCHANGED <<factoryVars, blocked, pageVars>>

\* sessions that create_driver returned earlier, in any state a session can be in
InitApi ==
    /\ sess \in [1..MaxHandles ->
                   { [NewSession("firefox", 0) EXCEPT
                          !.st = s, !.configured = TRUE, !.yielded = TRUE,
                          !.quits = IF s = "closed" THEN 1 ELSE 0] :
                       s \in SessionStates }]
    /\ fpc = "idle"
    /\ testNo = 0
    /\ browser = "firefox"
    /\ browser_name = "firefox"
    /\ headless = FALSE
    /\ HEADLESS = FALSE
    /\ platform = "posix"
    /\ method = 1
    /\ inFallback = FALSE
    /\ attempts = <<>>
    /\ driver = None
    /\ driver_instance = None
    /\ created = "none"
    /\ err = "none"
    /\ rep_call = "absent"
    /\ InitFs
    /\ InitPage

NextApi ==
    \/ ApiQuitDriver
    \/ ApiTakeScreenshot
    \/ Crash

SpecApi == InitApi /\ [][NextApi]_vars

-----------------------------------------------------------------------------
(* Claims about the driver bootstrap *)

ChromeAttempts == SelectSeq(attempts, LAMBDA a : a.kind = "chrome")
EdgeAttempts == SelectSeq(attempts, LAMBDA a : a.kind = "edge")
Strategies == <<"a", "b", "c", "d">>

\* C2: the Chrome launch strategies are attempted in the order (a), (b), (c),
\* (d); a strategy is attempted only after every earlier one failed, and no
\* strategy is attempted after one succeeded.
C2_StrategyOrder ==
    /\ Len(ChromeAttempts) <= Len(Strategies)
    /\ \A i \in 1..Len(ChromeAttempts) :
         /\ i <= Len(Strategies) => ChromeAttempts[i].strategy = Strategies[i]
         /\ i < Len(ChromeAttempts) => ~ChromeAttempts[i].ok

\* strategies (a), (b), (c) failed and (d) started the browser
C2_Witness ==
    /\ Len(ChromeAttempts) = 4
    /\ ChromeAttempts[4].ok
    /\ ChromeAttempts[4].strategy = "d"

AllStrategiesFailed(kind) ==
    \A st \in {"a", "b", "c", "d"} :
        \E i \in 1..Len(attempts) :
            attempts[i].kind = kind /\ attempts[i].strategy = st /\ ~attempts[i].ok

\* C3 as stated: for every supported browser kind, create_driver raises only
\* after all four strategies (a)-(d) of that kind were attempted and failed.
C3_AllKindsExhaustFourStrategies ==
    (created = "raised" /\ browser \in SupportedBrowsers) => AllStrategiesFailed(browser)

\* C3 amended: for chrome, create_driver raises only after the Edge fallback
\* launch was attempted and gave no session, and it surfaces a Chrome launch
\* failure only after all four strategies (a)-(d) were attempted and failed;
\* for firefox, edge and safari there is one launch attempt and no fallback.
C3_FailureAfterFallbacks ==
    (created = "raised" /\ browser \in SupportedBrowsers) =>
        /\ driver_instance = None
        /\ IF browser = "chrome"
           THEN /\ Len(EdgeAttempts) = 1
                /\ attempts[Len(attempts)].kind = "edge"
                /\ err = "launch" => AllStrategiesFailed("chrome")
           ELSE /\ Len(attempts) <= 1
                /\ \A i \in 1..Len(attempts) : attempts[i].kind = browser

\* all four Chrome strategies and the Edge fallback failed, and create_driver raised
C3_Witness ==
    /\ created = "raised"
    /\ browser = "chrome"
    /\ err = "launch"
    /\ Len(attempts) = 5

\* C4 as stated: every session create_driver returns (any browser kind, the
\* Edge fallback included) was navigated to a blank page first, and a session
\* whose navigation failed is quit and never returned.
C4_EverySessionVerified ==
    /\ created = "returned" => sess[driver_instance].verified
    /\ (fpc = "except" /\ err = "verify") =>
           sess[driver].st # "open" /\ ~sess[driver].yielded

\* C7 as stated: the fixture hands its test one browser session, quits every
\* session it was handed exactly once at that test's teardown, and no session
\* of an earlier test is still open when the next test's session is created.
C7_OneSessionPerTest ==
    /\ \A t \in 1..testNo :
         Cardinality({ s \in 1..Len(sess) : sess[s].test = t /\ sess[s].yielded }) <= 1
    /\ fpc \in {"test", "teardown"} =>
         /\ driver_instance # None
         /\ sess[driver_instance].test = testNo
    /\ \A s \in 1..Len(sess) :
         sess[s].yielded =>
             /\ sess[s].fixtureQuits <= 1
             /\ (sess[s].test < testNo \/ fpc = "idle") => sess[s].fixtureQuits = 1
    /\ (\E s \in 1..Len(sess) : sess[s].test = testNo) =>
           \A s \in 1..Len(sess) : sess[s].test < testNo => sess[s].st # "open"

-----------------------------------------------------------------------------
(* Claims about quit_driver and take_screenshot *)

\* C5: quit_driver never raises, whatever the handle (None, live, already quit,
\* dead so that its quit call fails); after it the session is not running, and
\* a repeated call leaves the state the first call left.
C5_QuitDriverIdempotent ==
    call.op = "quit_driver" =>
        /\ ~call.raised
        /\ call.h # None =>
              /\ sess[call.h].st = (IF call.before = "dead" THEN "dead" ELSE "closed")
              /\ call.nth >= 2 => sess[call.h].st = call.before

\* quit_driver called again on a session whose quit call fails
C5_Witness ==
    /\ call.op = "quit_driver"
    /\ call.h # None
    /\ call.nth >= 2
    /\ call.before = "dead"

Creatable(d, ds, blk) == \A p \in Prefixes(d) : p \in ds \/ p \notin blk

\* C6: take_screenshot never raises; it returns the path exactly when the
\* screenshot was saved, having created the missing parent directories, and
\* None when the directories cannot be created, the path has no directory
\* part, or the driver is None or not alive.
C6_TakeScreenshot ==
    call.op = "take_screenshot" =>
        LET d == Dirname(call.path)
            saved == /\ d # <<>>
                     /\ Creatable(d, call.dirsBefore, blocked)
                     /\ call.h # None
                     /\ call.before = "open"
        IN /\ ~call.raised
           /\ call.ret = (IF saved THEN call.path ELSE <<>>)
           /\ saved => call.path \in files /\ Prefixes(d) \subseteq dirs

\* a screenshot saved into a directory that did not exist before the call
C6_Witness ==
    /\ call.op = "take_screenshot"
    /\ call.ret = call.path
    /\ call.path # <<>>
    /\ ~(Prefixes(Dirname(call.path)) \subseteq call.dirsBefore)

-----------------------------------------------------------------------------
(* The page as the browser presents it, and the clock *)

\* Config.IMPLICIT_WAIT and Config.EXPLICIT_WAIT, in seconds: settings read from
\* the environment (defaults 10 and 20), here small values of the same order
IMPLICIT_WAIT == 1
EXPLICIT_WAIT == 3

\* WebDriverWait polls every 0.5 s: the clock counts poll intervals
TicksPerSecond == 2
Ticks(seconds) == seconds * TicksPerSecond
\* a poll that does not sleep
PollInterval_zero == Ticks(0)

PollInterval == 1

\* the timeout arguments, in seconds
Timeouts == {NoTimeout} \cup (0..MaxTimeout)

\* the state of an element at the moment a browser query reads it: not in the
\* DOM, in the DOM but not displayed, displayed but not enabled, displayed and
\* enabled.  The page changes under the test, so every query reads a state the
\* environment chooses.
ElemStates == {"absent", "hidden", "disabled", "clickable"}

Locators == {"LOC", "USERNAME_INPUT", "PASSWORD_INPUT", "LOGIN_BUTTON",
             "REMEMBER_ME_CHECKBOX", "FORGOT_PASSWORD_LINK", "NOTIFICATION_MESSAGE",
             "PRODUCT_LOGO", "LOGOUT_BUTTON", "LOGOUT_SECOND_BUTTON"}

\* driver.find_element under the session's implicit wait: an element that is
\* not there is waited for up to IMPLICIT_WAIT, then NoSuchElementException;
\* one that is there, or appears meanwhile, is returned after d ticks.
FindDurations(s) ==
    IF s = "absent" THEN {Ticks(IMPLICIT_WAIT)} ELSE 0..Ticks(IMPLICIT_WAIT)

\* the expected conditions of selenium's expected_conditions module
EC(kind, s) ==
    CASE kind = "present" -> s # "absent"
      [] kind = "visible" -> s \in {"disabled", "clickable"}
      [] kind = "clickable" -> s = "clickable"

\* element.click() / clear() / send_keys() / text / get_attribute(): an element
\* that is not displayed cannot be interacted with; any call can fail
CanAct(s, ok) == ok /\ s # "hidden" /\ s # "absent"

-----------------------------------------------------------------------------
(* The application under test *)

\* strings are sequences of characters
Texts == { <<>>, <<"u">>, <<"p">> }

\* the one account the application accepts
ValidCredentials == [username |-> <<"u">>, password |-> <<"p">>]
InvalidCredentials == [username |-> <<"u">>, password |-> <<"u">>]

\* "any": an application about which nothing is assumed, every query reads a
\* state the environment chooses.  The other pages are those of an application
\* that shows the login form, then after a valid login the logged-in marker
\* and the first logout control ("home"), after a click on that control the
\* second one ("menu"), and after a click on the second the login form again.
Pages == {"any", "login_form", "home", "menu"}

\* the element states a browser query for loc can read on page pg
Shows(pg, loc) ==
    CASE pg = "any" -> ElemStates
      [] pg = "login_form" ->
            IF loc \in {"USERNAME_INPUT", "PASSWORD_INPUT", "LOGIN_BUTTON"}
            THEN {"clickable"}
            ELSE IF loc \in {"REMEMBER_ME_CHECKBOX", "FORGOT_PASSWORD_LINK"}
            THEN {"absent", "clickable"}
            ELSE {"absent"}
      [] pg = "home" ->
            IF loc \in {"PRODUCT_LOGO", "LOGOUT_BUTTON"} THEN {"clickable"}
            ELSE IF loc = "LOGOUT_SECOND_BUTTON" THEN {"absent", "hidden"}
            ELSE {"absent"}
      [] pg = "menu" ->
            IF loc \in {"PRODUCT_LOGO", "LOGOUT_BUTTON", "LOGOUT_SECOND_BUTTON"}
            THEN {"clickable"}
            ELSE {"absent"}

\* whether an action on a displayed element can fail: on the pages above the
\* session is live and nothing covers the element
ActOk(pg) == IF pg = "any" THEN BOOLEAN ELSE {TRUE}

AppState(pg, u, p) == [page |-> pg, uval |-> u, pval |-> p]

\* what the application does when an element is clicked
AfterClick(st, loc) ==
    CASE st.page = "login_form" /\ loc = "LOGIN_BUTTON"
              /\ st.uval = ValidCredentials.username
              /\ st.pval = ValidCredentials.password ->
             AppState("home", <<>>, <<>>)
      [] st.page = "home" /\ loc = "LOGOUT_BUTTON" -> [st EXCEPT !.page = "menu"]
      [] st.page = "menu" /\ loc = "LOGOUT_SECOND_BUTTON" ->
             AppState("login_form", <<>>, <<>>)
      [] OTHER -> st

\* element.clear() empties a field, element.send_keys(text) types text after
\* what the field holds, element.click() is answered by the application;
\* nothing is recorded about the fields of the unknown application
Effect(st, a, loc, text) ==
    CASE st.page = "any" -> st
      [] a = "clear" /\ loc = "USERNAME_INPUT" -> [st EXCEPT !.uval = <<>>]
      [] a = "clear" /\ loc = "PASSWORD_INPUT" -> [st EXCEPT !.pval = <<>>]
      [] a = "send_keys" /\ loc = "USERNAME_INPUT" -> [st EXCEPT !.uval = @ \o text]
      [] a = "send_keys" /\ loc = "PASSWORD_INPUT" -> [st EXCEPT !.pval = @ \o text]
      [] a = "click" -> AfterClick(st, loc)
      [] OTHER -> st

RECURSIVE Effects(_, _, _, _)
Effects(st, as, loc, text) ==
    IF as = <<>> THEN st
    ELSE Effects(Effect(st, Head(as), loc, text), Tail(as), loc, text)

\* the text a page object method types into the field at loc
TextFor(loc, txt) == IF loc = "PASSWORD_INPUT" THEN txt.password ELSE txt.username

\* the application after the first n of the actions `as` on loc
AppAfter(as, n, loc) ==
    Effects(AppState(page, uval, pval), SubSeq(as, 1, n), loc, TextFor(loc, opText))

-----------------------------------------------------------------------------
(* BasePage: the wait operations and the action helpers *)

WaitOps == {"wait_for_element_visible", "wait_for_element_clickable",
            "wait_for_element_present"}
ActionOps == {"click_element", "enter_text", "get_text", "get_attribute", "press_key"}

\* every helper waits for visibility
WaitKindOf_click_waits_visible(op) ==
    CASE op = "wait_for_element_present" -> "present"
      [] OTHER -> "visible"

\* wait_for_element_visible is satisfied by an element in the DOM
WaitKindOf_visible_waits_present(op) ==
    CASE op \in {"wait_for_element_visible", "wait_for_element_present"} -> "present"
      [] op = "wait_for_element_clickable" -> "clickable"
      [] op = "click_element" -> "clickable"
      [] OTHER -> "visible"

\* the condition each operation waits for
WaitKindOf(op) ==
    CASE op = "wait_for_element_visible" -> "visible"
      [] op = "wait_for_element_clickable" -> "clickable"
      [] op = "wait_for_element_present" -> "present"
      [] op = "click_element" -> "clickable"
      [] op \in {"enter_text", "get_text", "get_attribute", "press_key"} -> "visible"
      [] op = "is_element_visible" -> "visible"

\* a missing timeout is taken as zero
EffectiveTimeout_none_is_zero(t) == IF t = NoTimeout THEN 0 ELSE t

\* if timeout is None: timeout = Config.EXPLICIT_WAIT
EffectiveTimeout(t) == IF t = NoTimeout THEN EXPLICIT_WAIT ELSE t

\* enter_text types without clearing, whatever clear_first is
ActsOf_never_clears(op, clear_first) ==
    CASE op = "click_element" -> <<"click">>
      [] op = "get_text" -> <<"text">>
      [] op = "get_attribute" -> <<"get_attribute">>
      [] OTHER -> <<"send_keys">>

\* what each helper does with the element its wait returned
ActsOf(op, clear_first) ==
    CASE op = "click_element" -> <<"click">>
      [] op = "enter_text" -> IF clear_first THEN <<"clear", "send_keys">>
                              ELSE <<"send_keys">>
      [] op = "get_text" -> <<"text">>
      [] op = "get_attribute" -> <<"get_attribute">>
      [] op = "press_key" -> <<"send_keys">>

Act(a, loc) == [act |-> a, loc |-> loc]
ActSeq(as, loc) == [i \in 1..Len(as) |-> Act(as[i], loc)]

Returned(v) == [status |-> "returned", value |-> v, exc |-> "none"]
Raised(e) == [status |-> "raised", value |-> "none", exc |-> e]

\* WebDriverWait(self.driver, timeout).until(condition(locator)) begins at time t0
BeginWait(kind, loc, seconds, who, t0) ==
    /\ waitKind' = kind
    /\ waitLoc' = loc
    /\ waitFor' = who
    /\ endTime' = t0 + Ticks(seconds)
    /\ sawTrue' = FALSE
    /\ ppc' = "wait"

\* a test calls one of the wait operations or action helpers
StartOperation ==
    /\ ppc = "idle"
    /\ \E op \in WaitOps \cup ActionOps, loc \in Locators, t \in Timeouts, f \in BOOLEAN :
         /\ f => op = "enter_text"
         /\ opName' = op
         /\ opLoc' = loc
         /\ opTimeout' = t
         /\ opFlag' = f
         /\ BeginWait(WaitKindOf(op), loc, EffectiveTimeout(t), "op", 0)
    /\ now' = 0
    /\ lastSeen' = "none"
    /\ acts' = <<>>
    /\ obs' = {}
    /\ result' = NoResult
    /\ fault' = "none"
    /\ log' = <<>>
    /\ UNCHANGED <<factoryVars, fsVars, testVars, scanVars, opText, page, uval, pval, hist>>

\* is_element_visible(locator, timeout=5)
VISIBLE_TIMEOUT == 5

\* login and logout: self.wait_for_element_visible(..., timeout=10)
MARKER_TIMEOUT == 10

\* a test calls is_element_visible
StartIsElementVisible ==
    /\ ppc = "idle"
    /\ \E loc \in {"LOC", "PRODUCT_LOGO"}, t \in Timeouts :
         /\ opName' = "is_element_visible"
         /\ opLoc' = loc
         /\ opTimeout' = t
         /\ BeginWait(WaitKindOf("is_element_visible"), loc,
                      IF t = NoTimeout THEN VISIBLE_TIMEOUT ELSE t, "is_visible", 0)
    /\ opFlag' = FALSE
    /\ now' = 0
    /\ lastSeen' = "none"
    /\ acts' = <<>>
    /\ obs' = {}
    /\ result' = NoResult
    /\ fault' = "none"
    /\ log' = <<>>
    /\ UNCHANGED <<factoryVars, fsVars, testVars, scanVars, opText, page, uval, pval, hist>>

\* the timeout, in seconds, of the wait that is polling
WaitSeconds ==
    CASE waitFor = "op" -> EffectiveTimeout(opTimeout)
      [] waitFor = "remember" -> EffectiveTimeout(NoTimeout)
      [] waitFor = "is_visible" -> IF opTimeout = NoTimeout THEN VISIBLE_TIMEOUT ELSE opTimeout
      [] OTHER -> MARKER_TIMEOUT

\* a line of the log about a wait
LogLine(level, loc, seconds) == [level |-> level, loc |-> loc, seconds |-> seconds]

\* what the except TimeoutException clause of a wait writes to the log:
\* wait_for_element_*: logger.error(f"Element {locator} not ... after {timeout} seconds");
\* wait_for_page_load: logger.warning(f"Page did not load completely within {timeout} seconds");
\* is_element_visible: nothing
OnTimeoutLog(who, loc, seconds) ==
    CASE who = "is_visible" -> <<>>
      [] who = "page_load" -> <<LogLine("warning", "none", seconds)>>
      [] OTHER -> <<LogLine("error", loc, seconds)>>

\* a probe lets the exception through
OnProbeException_reraises == Raised("WebDriverException")

\* click_remember_me / click_forgot_password: except Exception as e:
\* logger.warning(...), and the probe returns
OnProbeException == Returned("None")

\* where a wait that ended hands control: the wait operations return the
\* element or raise TimeoutException; the helpers go on to act or let the
\* timeout through; the probes swallow the timeout; login turns the outcome
\* of the marker wait into its boolean; logout clicks the second control it
\* waited for or returns False, and turns the outcome of its last wait into
\* its boolean
OnWaitEnd(found) ==
    CASE waitFor = "op" /\ opName \in WaitOps ->
             IF found THEN [ppc |-> "done", result |-> Returned(waitLoc)]
             ELSE [ppc |-> "done", result |-> Raised("TimeoutException")]
      [] waitFor = "op" /\ opName \in ActionOps ->
             IF found THEN [ppc |-> "act", result |-> result]
             ELSE [ppc |-> "done", result |-> Raised("TimeoutException")]
      [] waitFor = "remember" ->
             IF found THEN [ppc |-> "remember_click", result |-> result]
             ELSE IF opName = "login" THEN [ppc |-> "click_login", result |-> result]
             ELSE [ppc |-> "done", result |-> OnProbeException]
      [] waitFor = "marker" ->
             [ppc |-> "done", result |-> Returned(found)]
      [] waitFor = "logout_second" ->
             IF found THEN [ppc |-> "logout_second_click", result |-> result]
             ELSE [ppc |-> "done", result |-> Returned(FALSE)]
      [] waitFor = "logout_verify" ->
             [ppc |-> "done", result |-> Returned(found)]
      [] waitFor = "is_visible" ->
             [ppc |-> "done", result |-> Returned(found)]

\* one iteration of WebDriverWait.until: evaluate the condition; return its
\* value if true; else sleep one poll interval and give up once the clock has
\* passed end_time
Poll ==
    /\ ppc = "wait"
    /\ \E s \in Shows(page, waitLoc) :
         \E d \in FindDurations(s) :
            LET hit == EC(waitKind, s)
                t2 == now + d + PollInterval
            IN /\ lastSeen' = s
               /\ sawTrue' = hit
               /\ IF hit
                  THEN /\ now' = now + d
                       /\ obs' = obs \cup {[loc |-> waitLoc, kind |-> waitKind]}
                       /\ ppc' = OnWaitEnd(TRUE).ppc
                       /\ result' = OnWaitEnd(TRUE).result
                       /\ fault' = fault
                       /\ log' = log
                  ELSE /\ now' = t2
                       /\ obs' = obs
                       /\ IF t2 > endTime
                          THEN /\ ppc' = OnWaitEnd(FALSE).ppc
                               /\ result' = OnWaitEnd(FALSE).result
                               /\ fault' = "timeout"
                               /\ log' = log \o OnTimeoutLog(waitFor, waitLoc, WaitSeconds)
                          ELSE UNCHANGED <<ppc, result, fault, log>>
    /\ UNCHANGED <<factoryVars, fsVars, testVars, scanVars, opText, page, uval, pval, hist, opName, opLoc, opTimeout, opFlag, waitFor,
                   waitKind, waitLoc, endTime, acts>>

\* the part of a helper after its wait: act on the element, log, re-raise
HelperAct ==
    /\ ppc = "act"
    /\ LET as == ActsOf(opName, opFlag)
       IN \E k \in 1..Len(as), ok \in ActOk(page) :
            LET n == IF ok THEN k ELSE k - 1
                st == AppAfter(as, n, opLoc)
            IN /\ k < Len(as) => ~ok
               /\ acts' = acts \o ActSeq(SubSeq(as, 1, k), opLoc)
               /\ result' = IF ok THEN Returned(opLoc) ELSE Raised("WebDriverException")
               /\ page' = st.page
               /\ uval' = st.uval
               /\ pval' = st.pval
               /\ fault' = IF ok THEN fault ELSE "action"
    /\ ppc' = "done"
    /\ UNCHANGED <<factoryVars, fsVars, testVars, scanVars, log, opText, hist, opName, opLoc, opTimeout, opFlag, waitFor,
                   waitKind, waitLoc, endTime, now, lastSeen, sawTrue, obs>>

\* the operation has returned or raised to the test, which goes on
OperationEnds ==
    /\ ppc = "done"
    /\ opName' = "none"
    /\ opLoc' = "none"
    /\ opTimeout' = NoTimeout
    /\ opFlag' = FALSE
    /\ opText' = NoText
    /\ waitFor' = "none"
    /\ waitKind' = "none"
    /\ waitLoc' = "none"
    /\ endTime' = 0
    /\ now' = 0
    /\ lastSeen' = "none"
    /\ sawTrue' = FALSE
    /\ acts' = <<>>
    /\ obs' = {}
    /\ result' = NoResult
    /\ fault' = "none"
    /\ log' = <<>>
    /\ dom' = NoDom
    /\ scan' = NoScan
    /\ ppc' = "idle"
    /\ UNCHANGED <<factoryVars, fsVars, testVars, page, uval, pval, hist>>

-----------------------------------------------------------------------------
(* BasePage: navigation, page load, lookup and scrolling *)

\* wait_for_page_load(timeout=30)
PAGE_LOAD_TIMEOUT == 30

\* document.readyState as execute_script returns it
ReadyStates == {"loading", "interactive", "complete"}

LookupOps == {"navigate_to", "wait_for_page_load", "find_element", "find_elements",
              "scroll_to_element"}

\* except TimeoutException: logger.warning(...) - wait_for_page_load returns
OnPageLoadTimeout == Returned("None")

\* a test calls navigate_to, wait_for_page_load, find_element(s) or scroll_to_element
StartLookup ==
    /\ ppc = "idle"
    /\ \E op \in LookupOps, loc \in {"LOC", "NOTIFICATION_MESSAGE"} :
         /\ opName' = op
         /\ opLoc' = IF op \in {"navigate_to", "wait_for_page_load"} THEN "none" ELSE loc
         /\ ppc' = CASE op = "navigate_to" -> "get"
                      [] op = "wait_for_page_load" -> "load_wait"
                      [] op = "find_element" -> "find"
                      [] op = "find_elements" -> "find_all"
                      [] op = "scroll_to_element" -> "scroll"
    /\ endTime' = Ticks(PAGE_LOAD_TIMEOUT)
    /\ opTimeout' = NoTimeout
    /\ opFlag' = FALSE
    /\ opText' = NoText
    /\ now' = 0
    /\ lastSeen' = "none"
    /\ sawTrue' = FALSE
    /\ acts' = <<>>
    /\ obs' = {}
    /\ result' = NoResult
    /\ fault' = "none"
    /\ log' = <<>>
    /\ UNCHANGED <<factoryVars, fsVars, testVars, scanVars, page, uval, pval, hist, waitFor, waitKind, waitLoc>>

\* navigate_to: self.driver.get(url), then self.wait_for_page_load()
Navigate ==
    /\ ppc = "get"
    /\ acts' = Append(acts, Act("get", "url"))
    /\ \E ok \in ActOk(page) :
         IF ok
         THEN /\ ppc' = "load_wait"
              /\ endTime' = now + Ticks(PAGE_LOAD_TIMEOUT)
              /\ UNCHANGED <<result, fault>>
         ELSE /\ ppc' = "done"
              /\ result' = Raised("WebDriverException")
              /\ fault' = "action"
              /\ endTime' = endTime
    /\ UNCHANGED <<factoryVars, fsVars, testVars, scanVars, log, opText, page, uval, pval, hist, opName, opLoc,
                   opTimeout, opFlag, waitFor, waitKind, waitLoc, now, lastSeen, sawTrue,
                   obs>>

\* one iteration of the WebDriverWait of wait_for_page_load: read
\* document.readyState; return when it is "complete"; else sleep one poll
\* interval and give up once the clock has passed end_time.  A failing
\* execute_script is not a timeout and goes through to the caller.
PollReadyState ==
    /\ ppc = "load_wait"
    /\ \E rs \in ReadyStates, ok \in ActOk(page) :
         IF ~ok
         THEN /\ ppc' = "done"
              /\ result' = Raised("WebDriverException")
              /\ fault' = "action"
              /\ UNCHANGED <<now, sawTrue, log>>
         ELSE IF rs = "complete"
         THEN /\ ppc' = "done"
              /\ result' = Returned("None")
              /\ sawTrue' = TRUE
              /\ UNCHANGED <<now, fault, log>>
         ELSE /\ now' = now + PollInterval
              /\ sawTrue' = FALSE
              /\ IF now + PollInterval > endTime
                 THEN /\ ppc' = "done"
                      /\ result' = OnPageLoadTimeout
                      /\ fault' = "timeout"
                      /\ log' = log \o OnTimeoutLog("page_load", "none", PAGE_LOAD_TIMEOUT)
                 ELSE UNCHANGED <<ppc, result, fault, log>>
    /\ UNCHANGED <<factoryVars, fsVars, testVars, scanVars, opText, page, uval, pval, hist, opName, opLoc,
                   opTimeout, opFlag, waitFor, waitKind, waitLoc, endTime, lastSeen, acts,
                   obs>>

\* find_element: self.driver.find_element(*locator); NoSuchElementException is
\* logged and re-raised
Find ==
    /\ ppc = "find"
    /\ \E s \in Shows(page, opLoc) :
         \E d \in FindDurations(s) :
           /\ now' = now + d
           /\ lastSeen' = s
           /\ result' = IF s = "absent" THEN Raised("NoSuchElementException")
                         ELSE Returned(opLoc)
           /\ fault' = IF s = "absent" THEN "missing" ELSE fault
    /\ ppc' = "done"
    /\ UNCHANGED <<factoryVars, fsVars, testVars, scanVars, log, opText, page, uval, pval, hist, opName, opLoc,
                   opTimeout, opFlag, waitFor, waitKind, waitLoc, endTime, sawTrue, acts,
                   obs>>

\* find_elements: self.driver.find_elements(*locator) returns the list of the
\* elements found, empty when there is none; any exception is re-raised
FindAll ==
    /\ ppc = "find_all"
    /\ \E s \in Shows(page, opLoc), ok \in ActOk(page) :
         \E d \in FindDurations(s) :
           /\ now' = now + d
           /\ lastSeen' = s
           /\ result' = IF ~ok THEN Raised("WebDriverException")
                         ELSE IF s = "absent" THEN Returned(<<>>)
                         ELSE Returned(<<opLoc>>)
           /\ fault' = IF ok THEN fault ELSE "action"
    /\ ppc' = "done"
    /\ UNCHANGED <<factoryVars, fsVars, testVars, scanVars, log, opText, page, uval, pval, hist, opName, opLoc,
                   opTimeout, opFlag, waitFor, waitKind, waitLoc, endTime, sawTrue, acts,
                   obs>>

\* scroll_to_element: element = self.find_element(locator), then
\* execute_script("arguments[0].scrollIntoView();", element)
Scroll ==
    /\ ppc = "scroll"
    /\ \E s \in Shows(page, opLoc), ok \in ActOk(page) :
         \E d \in FindDurations(s) :
           /\ now' = now + d
           /\ lastSeen' = s
           /\ IF s = "absent"
              THEN /\ acts' = acts
                   /\ result' = Raised("NoSuchElementException")
                   /\ fault' = "missing"
              ELSE /\ acts' = Append(acts, Act("scrollIntoView", opLoc))
                   /\ result' = IF ok THEN Returned("None") ELSE Raised("WebDriverException")
                   /\ fault' = IF ok THEN fault ELSE "action"
    /\ ppc' = "done"
    /\ UNCHANGED <<factoryVars, fsVars, testVars, scanVars, log, opText, page, uval, pval, hist, opName, opLoc,
                   opTimeout, opFlag, waitFor, waitKind, waitLoc, endTime, sawTrue, obs>>

-----------------------------------------------------------------------------
(* LoginPage *)

\* time.sleep(2) after a click that changes the page
SETTLE_DELAY == 2

FieldOps == {"enter_username", "enter_password", "clear_login_form",
             "get_username_field_value", "get_password_field_value"}
ProbeOps == {"click_remember_me", "click_forgot_password"}
PageObjectOps == FieldOps \cup ProbeOps \cup {"click_login_button", "logout"}

\* where each method of the page object begins
FirstStep(op) ==
    CASE op \in {"login", "enter_username"} -> "enter_username"
      [] op = "enter_password" -> "enter_password"
      [] op = "click_login_button" -> "click_login"
      [] op = "clear_login_form" -> "clear_username"
      [] op \in {"get_username_field_value", "get_password_field_value"} -> "get_value"
      [] op \in ProbeOps -> "remember_probe"
      [] op = "logout" -> "logout_first"

\* the optional element a best-effort probe looks for
ProbeLoc(op) ==
    IF op = "click_forgot_password" THEN "FORGOT_PASSWORD_LINK"
    ELSE "REMEMBER_ME_CHECKBOX"

\* the field a getter reads
FieldOf(op) ==
    IF op = "get_password_field_value" THEN "PASSWORD_INPUT" ELSE "USERNAME_INPUT"

\* what a method hands back when its try block ran to the end
DoneValue(op, st) ==
    CASE op = "get_username_field_value" -> st.uval
      [] op = "get_password_field_value" -> st.pval
      [] OTHER -> "None"

\* logout logs and re-raises like the other methods
OnException_logout_reraises(op, e) ==
    IF op \in {"get_username_field_value", "get_password_field_value"}
    THEN Returned(<<>>)
    ELSE Raised(e)

\* what a method does with an exception of its try block: logout returns
\* False, the getters return "", the others log and re-raise
OnException(op, e) ==
    CASE op = "logout" -> Returned(FALSE)
      [] op \in {"get_username_field_value", "get_password_field_value"} -> Returned(<<>>)
      [] OTHER -> Raised(e)

\* element = self.find_element(loc); then the actions `as` on it, inside the
\* method's try block; when they succeed the method goes on at `next`
FindThenAct(loc, as, next) ==
    \E s \in Shows(page, loc) :
      \E d \in FindDurations(s) :
        /\ now' = now + d
        /\ lastSeen' = s
        /\ IF s = "absent"
           THEN /\ acts' = acts
                /\ result' = OnException(opName, "NoSuchElementException")
                /\ fault' = "missing"
                /\ ppc' = "done"
                /\ UNCHANGED <<page, uval, pval>>
           ELSE \E k \in 1..Len(as), ok \in ActOk(page) :
                  LET n == IF CanAct(s, ok) THEN k ELSE k - 1
                      st == AppAfter(as, n, loc)
                  IN /\ k < Len(as) => ~ok
                     /\ ~CanAct(s, TRUE) => ~ok /\ k = 1
                     /\ acts' = acts \o ActSeq(SubSeq(as, 1, k), loc)
                     /\ page' = st.page
                     /\ uval' = st.uval
                     /\ pval' = st.pval
                     /\ fault' = IF CanAct(s, ok) THEN fault ELSE "action"
                     /\ IF CanAct(s, ok)
                        THEN /\ ppc' = next
                             /\ result' = IF next = "done"
                                          THEN Returned(DoneValue(opName, AppState(page, uval, pval)))
                                          ELSE result
                        ELSE /\ result' = OnException(opName, "WebDriverException")
                             /\ ppc' = "done"

\* login and logout both look for the logged-in marker
VerifyLocator_always_marker(op) == "PRODUCT_LOGO"

\* the element whose visibility decides the boolean a method returns
VerifyLocator(op) == IF op = "logout" THEN "USERNAME_INPUT" ELSE "PRODUCT_LOGO"

\* the text is typed after what the field holds
TypeActs_no_clear == <<"send_keys">>

\* enter_username / enter_password: element.clear(), element.send_keys(text)
TypeActs == <<"clear", "send_keys">>

\* clear_login_form returns once the username field is cleared
AfterClearUsername_returns == "done"

\* clear_login_form goes on to the password field
AfterClearUsername == "clear_password"

\* the credential pairs of the test data
Credentials == {ValidCredentials, InvalidCredentials}

\* a test calls login(username, password, remember_me)
StartLogin ==
    /\ ppc = "idle"
    /\ Len(hist) < MaxCalls
    /\ \E remember_me \in BOOLEAN : opFlag' = remember_me
    /\ \E c \in Credentials : opText' = c
    /\ opName' = "login"
    /\ opLoc' = "none"
    /\ opTimeout' = NoTimeout
    /\ ppc' = "enter_username"
    /\ now' = 0
    /\ lastSeen' = "none"
    /\ sawTrue' = FALSE
    /\ acts' = <<>>
    /\ obs' = {}
    /\ result' = NoResult
    /\ fault' = "none"
    /\ log' = <<>>
    /\ UNCHANGED <<factoryVars, fsVars, testVars, scanVars, page, uval, pval, hist, waitFor, waitKind,
                   waitLoc, endTime>>

\* a test calls one of the other methods of the page object
StartCall(ops) ==
    /\ ppc = "idle"
    /\ Len(hist) < MaxCalls
    /\ \E op \in ops, u \in Texts, pw \in Texts :
         /\ op # "enter_username" => u = <<>>
         /\ op # "enter_password" => pw = <<>>
         /\ opName' = op
         /\ opText' = [username |-> u, password |-> pw]
         /\ opLoc' = IF op \in ProbeOps THEN ProbeLoc(op)
                     ELSE IF op \in {"get_username_field_value", "get_password_field_value"}
                     THEN FieldOf(op)
                     ELSE "none"
         /\ ppc' = FirstStep(op)
    /\ opTimeout' = NoTimeout
    /\ opFlag' = FALSE
    /\ now' = 0
    /\ lastSeen' = "none"
    /\ sawTrue' = FALSE
    /\ acts' = <<>>
    /\ obs' = {}
    /\ result' = NoResult
    /\ fault' = "none"
    /\ log' = <<>>
    /\ UNCHANGED <<factoryVars, fsVars, testVars, scanVars, page, uval, pval, hist, waitFor, waitKind,
                   waitLoc, endTime>>

\* self.enter_username(username), called by a test or by login
LoginEnterUsername ==
    /\ ppc = "enter_username"
    /\ FindThenAct("USERNAME_INPUT", TypeActs,
                   IF opName = "login" THEN "enter_password" ELSE "done")
    /\ UNCHANGED <<factoryVars, fsVars, testVars, scanVars, log, opText, hist, opName, opLoc, opTimeout, opFlag,
                   waitFor, waitKind, waitLoc, endTime, sawTrue, obs>>

\* login probes for the checkbox whatever remember_me is
AfterPassword_always_probes(op, remember_me) ==
    IF op # "login" THEN "done" ELSE "remember_probe"

\* after enter_password: back to the caller, or in login
\* if remember_me: self.click_remember_me(), then self.click_login_button()
AfterPassword(op, remember_me) ==
    IF op # "login" THEN "done"
    ELSE IF remember_me THEN "remember_probe" ELSE "click_login"

\* self.enter_password(password), called by a test or by login
LoginEnterPassword ==
    /\ ppc = "enter_password"
    /\ FindThenAct("PASSWORD_INPUT", TypeActs, AfterPassword(opName, opFlag))
    /\ UNCHANGED <<factoryVars, fsVars, testVars, scanVars, log, opText, hist, opName, opLoc, opTimeout, opFlag,
                   waitFor, waitKind, waitLoc, endTime, sawTrue, obs>>

\* click_remember_me / click_forgot_password:
\* if self.is_element_present(loc): self.click_element(loc); is_element_present
\* answers False whatever find_element raises
LoginRememberProbe ==
    /\ ppc = "remember_probe"
    /\ \E s \in Shows(page, ProbeLoc(opName)), found \in ActOk(page) :
         \E d \in FindDurations(s) :
           /\ now' = now + d
           /\ lastSeen' = s
           /\ fault' = IF s = "absent" THEN "missing" ELSE IF ~found THEN "probe" ELSE fault
           /\ IF s = "absent" \/ ~found
              THEN /\ ppc' = IF opName = "login" THEN "click_login" ELSE "done"
                   /\ result' = IF opName = "login" THEN result ELSE Returned("None")
                   /\ UNCHANGED <<waitFor, waitKind, waitLoc, endTime, sawTrue>>
              ELSE /\ BeginWait(WaitKindOf("click_element"), ProbeLoc(opName),
                                EffectiveTimeout(NoTimeout), "remember", now + d)
                   /\ result' = result
    /\ UNCHANGED <<factoryVars, fsVars, testVars, scanVars, log, opText, page, uval, pval, hist, opName, opLoc,
                   opTimeout, opFlag, acts, obs>>

\* the click of click_element inside the probe; a failure is logged as a
\* warning by the probe
LoginRememberClick ==
    /\ ppc = "remember_click"
    /\ acts' = Append(acts, Act("click", ProbeLoc(opName)))
    /\ \E ok \in ActOk(page) :
         /\ fault' = IF ok THEN fault ELSE "action"
         /\ result' = IF opName = "login" THEN result
                       ELSE IF ok THEN Returned("None")
                       ELSE OnProbeException
    /\ ppc' = IF opName = "login" THEN "click_login" ELSE "done"
    /\ UNCHANGED <<factoryVars, fsVars, testVars, scanVars, log, opText, page, uval, pval, hist, opName, opLoc,
                   opTimeout, opFlag, waitFor, waitKind, waitLoc, endTime, now, lastSeen,
                   sawTrue, obs>>

\* self.click_login_button(), called by a test or by login
LoginClickButton ==
    /\ ppc = "click_login"
    /\ FindThenAct("LOGIN_BUTTON", <<"click">>,
                   IF opName = "login" THEN "settle" ELSE "done")
    /\ UNCHANGED <<factoryVars, fsVars, testVars, scanVars, log, opText, hist, opName, opLoc, opTimeout, opFlag,
                   waitFor, waitKind, waitLoc, endTime, sawTrue, obs>>

\* time.sleep(2), then self.wait_for_element_visible(self.PRODUCT_LOGO, timeout=10)
\* inside try / except Exception
LoginSettle ==
    /\ ppc = "settle"
    /\ now' = now + Ticks(SETTLE_DELAY)
    /\ BeginWait(WaitKindOf("wait_for_element_visible"), VerifyLocator(opName),
                 EffectiveTimeout(MARKER_TIMEOUT), "marker", now + Ticks(SETTLE_DELAY))
    /\ UNCHANGED <<factoryVars, fsVars, testVars, scanVars, log, fault, opText, page, uval, pval, hist, opName, opLoc,
                   opTimeout, opFlag, lastSeen, acts, obs, result>>

-----------------------------------------------------------------------------
(* LoginPage.logout *)

\* first_logout_element = self.find_element(self.LOGOUT_BUTTON); .click()
LogoutFirstClick ==
    /\ ppc = "logout_first"
    /\ FindThenAct("LOGOUT_BUTTON", <<"click">>, "logout_settle")
    /\ UNCHANGED <<factoryVars, fsVars, testVars, scanVars, log, opText, hist, opName, opLoc, opTimeout, opFlag,
                   waitFor, waitKind, waitLoc, endTime, sawTrue, obs>>

\* time.sleep(2), then self.wait_for_element_visible(self.LOGOUT_SECOND_BUTTON, timeout=10)
LogoutSettle ==
    /\ ppc = "logout_settle"
    /\ now' = now + Ticks(SETTLE_DELAY)
    /\ BeginWait(WaitKindOf("wait_for_element_visible"), "LOGOUT_SECOND_BUTTON",
                 EffectiveTimeout(MARKER_TIMEOUT), "logout_second",
                 now + Ticks(SETTLE_DELAY))
    /\ UNCHANGED <<factoryVars, fsVars, testVars, scanVars, log, fault, opText, page, uval, pval, hist, opName, opLoc,
                   opTimeout, opFlag, lastSeen, acts, obs, result>>

\* second_logout_element.click() on the element the wait returned, then
\* self.wait_for_element_visible(self.USERNAME_INPUT, timeout=10) in the inner try
LogoutSecondClick ==
    /\ ppc = "logout_second_click"
    /\ acts' = Append(acts, Act("click", "LOGOUT_SECOND_BUTTON"))
    /\ \E ok \in ActOk(page) :
         IF ok
         THEN LET st == AppAfter(<<"click">>, 1, "LOGOUT_SECOND_BUTTON")
              IN /\ page' = st.page
                 /\ uval' = st.uval
                 /\ pval' = st.pval
                 /\ BeginWait(WaitKindOf("wait_for_element_visible"),
                              VerifyLocator(opName),
                              EffectiveTimeout(MARKER_TIMEOUT), "logout_verify", now)
                 /\ result' = result
                 /\ fault' = fault
         ELSE /\ result' = OnException(opName, "WebDriverException")
              /\ fault' = "action"
              /\ ppc' = "done"
              /\ UNCHANGED <<page, uval, pval, waitFor, waitKind, waitLoc, endTime, sawTrue>>
    /\ UNCHANGED <<factoryVars, fsVars, testVars, scanVars, log, opText, hist, opName, opLoc, opTimeout, opFlag,
                   now, lastSeen, obs>>

-----------------------------------------------------------------------------
(* LoginPage.clear_login_form and the field getters *)

\* username_element = self.find_element(self.USERNAME_INPUT); .clear()
ClearUsername ==
    /\ ppc = "clear_username"
    /\ FindThenAct("USERNAME_INPUT", <<"clear">>, AfterClearUsername)
    /\ UNCHANGED <<factoryVars, fsVars, testVars, scanVars, log, opText, hist, opName, opLoc, opTimeout, opFlag,
                   waitFor, waitKind, waitLoc, endTime, sawTrue, obs>>

\* password_element = self.find_element(self.PASSWORD_INPUT); .clear()
ClearPassword ==
    /\ ppc = "clear_password"
    /\ FindThenAct("PASSWORD_INPUT", <<"clear">>, "done")
    /\ UNCHANGED <<factoryVars, fsVars, testVars, scanVars, log, opText, hist, opName, opLoc, opTimeout, opFlag,
                   waitFor, waitKind, waitLoc, endTime, sawTrue, obs>>

\* element = self.find_element(field); return element.get_attribute("value")
GetFieldValue ==
    /\ ppc = "get_value"
    /\ FindThenAct(FieldOf(opName), <<"get_attribute">>, "done")
    /\ UNCHANGED <<factoryVars, fsVars, testVars, scanVars, log, opText, hist, opName, opLoc, opTimeout, opFlag,
                   waitFor, waitKind, waitLoc, endTime, sawTrue, obs>>

-----------------------------------------------------------------------------
(* LoginPage.is_error_message_displayed *)

\* error_patterns, each named by the elements it selects
error_patterns == <<"div.error", "div.alert", "span.error", "text:Invalid",
                    "text:incorrect", "text:failed">>

\* the texts of an element: none, white space only, a message
ErrTexts == { <<>>, <<" ">>, <<"e">> }

\* the states of an element of the DOM: not displayed, or displayed with a text
ErrElements == {ElementView("hidden", <<>>)} \cup { ElementView("displayed", t) : t \in ErrTexts }

IsSpace(c) == c = " "

RECURSIVE LStrip(_)
LStrip(t) == IF t # <<>> /\ IsSpace(Head(t)) THEN LStrip(Tail(t)) ELSE t

RECURSIVE RStrip(_)
RStrip(t) == IF t # <<>> /\ IsSpace(t[Len(t)]) THEN RStrip(SubSeq(t, 1, Len(t) - 1)) ELSE t

\* str.strip()
strip(t) == RStrip(LStrip(t))

\* element.is_displayed() and element.text.strip()
DisplayedWithText(el) == el.st = "displayed" /\ strip(el.text) # <<>>

\* the elements each pattern selects when only el matches, and it matches pattern p
Single(p, el) == [i \in 1..Len(error_patterns) |-> IF i = p THEN <<el>> ELSE <<>>]

\* the DOMs a page can hold: the notification element or none, and up to two
\* other elements, each selected by one pattern
Doms ==
    LET none == [i \in 1..Len(error_patterns) |-> <<>>]
        one == { Single(p, el) : p \in 1..Len(error_patterns), el \in ErrElements }
        two == { [i \in 1..Len(error_patterns) |-> a[i] \o b[i]] : a \in one, b \in one }
    IN [notice : {NoElement} \cup ErrElements, by : {none} \cup one \cup two]

\* an observation of the scan
Seen(loc, what) == [loc |-> loc, kind |-> what]

\* a failure while one pattern is scanned ends the whole scan
AfterPatternFailure_stops(i) == Len(error_patterns) + 1

\* except Exception: continue - the scan goes on with the next pattern
AfterPatternFailure(i) == i + 1

\* the scan moves to pattern i, or is over: return False
ScanFrom(i) ==
    IF i <= Len(error_patterns)
    THEN /\ scan' = [pattern |-> i, elem |-> 0]
         /\ ppc' = "err_scan"
         /\ result' = result
    ELSE /\ scan' = NoScan
         /\ ppc' = "done"
         /\ result' = Returned(FALSE)

\* a test calls is_error_message_displayed on a page that holds some DOM
StartErrorCheck ==
    /\ ppc = "idle"
    /\ dom' \in Doms
    /\ scan' = NoScan
    /\ opName' = "is_error_message_displayed"
    /\ opLoc' = "NOTIFICATION_MESSAGE"
    /\ opTimeout' = NoTimeout
    /\ opFlag' = FALSE
    /\ opText' = NoText
    /\ ppc' = "err_present"
    /\ now' = 0
    /\ lastSeen' = "none"
    /\ sawTrue' = FALSE
    /\ acts' = <<>>
    /\ obs' = {}
    /\ result' = NoResult
    /\ fault' = "none"
    /\ log' = <<>>
    /\ UNCHANGED <<factoryVars, fsVars, testVars, page, uval, pval, hist, waitFor, waitKind,
                   waitLoc, endTime>>

\* if self.is_element_present(self.NOTIFICATION_MESSAGE): find_element inside
\* try / except Exception: return False
ErrNotificationPresent ==
    /\ ppc = "err_present"
    /\ acts' = Append(acts, Act("find_element", "NOTIFICATION_MESSAGE"))
    /\ \E ok \in ActOk(page) :
         IF dom.notice.st = "absent" \/ ~ok
         THEN /\ ScanFrom(1)
              /\ fault' = IF dom.notice.st = "absent" THEN fault ELSE "probe"
              /\ obs' = IF dom.notice.st = "absent" THEN obs
                        ELSE obs \cup {Seen("NOTIFICATION_MESSAGE", "probe_failed")}
         ELSE /\ ppc' = "err_find"
              /\ UNCHANGED <<scan, result, fault, obs>>
    /\ UNCHANGED <<factoryVars, fsVars, testVars, dom, log, opText, page, uval, pval, hist,
                   opName, opLoc, opTimeout, opFlag, waitFor, waitKind, waitLoc, endTime,
                   now, lastSeen, sawTrue>>

\* element = self.find_element(self.NOTIFICATION_MESSAGE), then
\* if element.is_displayed() and element.text.strip(): return True;
\* an exception of either goes to the outer except Exception: return False
ErrNotificationRead ==
    /\ ppc = "err_find"
    /\ \E found \in ActOk(page), ok \in ActOk(page) :
         /\ ~found => ~ok
         /\ acts' = acts \o <<Act("find_element", "NOTIFICATION_MESSAGE")>>
                         \o (IF found THEN <<Act("is_displayed", "NOTIFICATION_MESSAGE")>>
                             ELSE <<>>)
         /\ IF ~ok
            THEN /\ ppc' = "done"
                 /\ result' = Returned(FALSE)
                 /\ scan' = scan
                 /\ fault' = "action"
                 /\ obs' = obs \cup {Seen("NOTIFICATION_MESSAGE", "raised")}
            ELSE IF DisplayedWithText(dom.notice)
            THEN /\ ppc' = "done"
                 /\ result' = Returned(TRUE)
                 /\ scan' = scan
                 /\ fault' = fault
                 /\ obs' = obs \cup {Seen("NOTIFICATION_MESSAGE", "displayed")}
            ELSE /\ ScanFrom(1)
                 /\ UNCHANGED <<fault, obs>>
    /\ UNCHANGED <<factoryVars, fsVars, testVars, dom, log, opText, page, uval, pval, hist,
                   opName, opLoc, opTimeout, opFlag, waitFor, waitKind, waitLoc, endTime,
                   now, lastSeen, sawTrue>>

\* elements = self.driver.find_elements(By.XPATH, pattern) inside the try of
\* the loop body
ErrScanPattern ==
    /\ ppc = "err_scan"
    /\ scan.elem = 0
    /\ acts' = Append(acts, Act("find_elements", error_patterns[scan.pattern]))
    /\ \E ok \in ActOk(page) :
         IF ~ok
         THEN /\ ScanFrom(AfterPatternFailure(scan.pattern))
              /\ fault' = "action"
              /\ obs' = obs \cup {Seen(error_patterns[scan.pattern], "raised")}
         ELSE /\ IF dom.by[scan.pattern] = <<>>
                 THEN ScanFrom(scan.pattern + 1)
                 ELSE /\ scan' = [scan EXCEPT !.elem = 1]
                      /\ UNCHANGED <<ppc, result>>
              /\ UNCHANGED <<fault, obs>>
    /\ UNCHANGED <<factoryVars, fsVars, testVars, dom, log, opText, page, uval, pval, hist,
                   opName, opLoc, opTimeout, opFlag, waitFor, waitKind, waitLoc, endTime,
                   now, lastSeen, sawTrue>>

\* for element in elements: if element.is_displayed() and element.text.strip():
\* return True; an exception leaves the inner loop for the next pattern
ErrScanElement ==
    /\ ppc = "err_scan"
    /\ scan.elem > 0
    /\ acts' = Append(acts, Act("is_displayed", error_patterns[scan.pattern]))
    /\ \E ok \in ActOk(page) :
         LET el == dom.by[scan.pattern][scan.elem]
         IN IF ~ok
            THEN /\ ScanFrom(AfterPatternFailure(scan.pattern))
                 /\ fault' = "action"
                 /\ obs' = obs \cup {Seen(error_patterns[scan.pattern], "raised")}
            ELSE IF DisplayedWithText(el)
            THEN /\ ppc' = "done"
                 /\ result' = Returned(TRUE)
                 /\ scan' = scan
                 /\ fault' = fault
                 /\ obs' = obs \cup {Seen(error_patterns[scan.pattern], "displayed")}
            ELSE /\ IF scan.elem < Len(dom.by[scan.pattern])
                    THEN /\ scan' = [scan EXCEPT !.elem = @ + 1]
                         /\ UNCHANGED <<ppc, result>>
                    ELSE ScanFrom(scan.pattern + 1)
                 /\ UNCHANGED <<fault, obs>>
    /\ UNCHANGED <<factoryVars, fsVars, testVars, dom, log, opText, page, uval, pval, hist,
                   opName, opLoc, opTimeout, opFlag, waitFor, waitKind, waitLoc, endTime,
                   now, lastSeen, sawTrue>>

-----------------------------------------------------------------------------
(* LoginPage.get_success_message *)

\* the locators LoginPage defines; BasePage defines none
LoginPageAttributes ==
    {"NAME_INPUT", "USERNAME_INPUT", "EMAIL_INPUT", "PASSWORD_INPUT", "LOGIN_BUTTON",
     "REMEMBER_ME_CHECKBOX", "FORGOT_PASSWORD_LINK", "NOTIFICATION_MESSAGE",
     "PRODUCT_LOGO", "LOGOUT_BUTTON", "LOGOUT_SECOND_BUTTON"}

\* a test calls get_success_message on a page that holds some DOM
StartSuccessMessage ==
    /\ ppc = "idle"
    /\ dom' \in Doms
    /\ scan' = NoScan
    /\ opName' = "get_success_message"
    /\ opLoc' = "none"
    /\ opTimeout' = NoTimeout
    /\ opFlag' = FALSE
    /\ opText' = NoText
    /\ ppc' = "success_message"
    /\ now' = 0
    /\ lastSeen' = "none"
    /\ sawTrue' = FALSE
    /\ acts' = <<>>
    /\ obs' = {}
    /\ result' = NoResult
    /\ fault' = "none"
    /\ log' = <<>>
    /\ UNCHANGED <<factoryVars, fsVars, testVars, page, uval, pval, hist, waitFor, waitKind,
                   waitLoc, endTime>>

\* success_text = self.get_text(self.SUCCESS_MESSAGE): the attribute lookup
\* raises AttributeError before get_text is called;
\* except Exception: logger.info("No success message found"); return ""
GetSuccessMessage ==
    /\ ppc = "success_message"
    /\ "SUCCESS_MESSAGE" \notin LoginPageAttributes
    /\ ppc' = "done"
    /\ result' = Returned(<<>>)
    /\ fault' = "attribute"
    /\ UNCHANGED <<factoryVars, fsVars, testVars, scanVars, log, opText, page, uval, pval,
                   hist, opName, opLoc, opTimeout, opFlag, waitFor, waitKind, waitLoc,
                   endTime, now, lastSeen, sawTrue, acts, obs>>

-----------------------------------------------------------------------------
(* The tests as callers of the page object *)

\* the call has returned or raised to the test, which notes the outcome and
\* the page it left behind, and goes on
CallReturns ==
    /\ ppc = "done"
    /\ hist' = Append(hist, [op |-> opName, text |-> opText, flag |-> opFlag,
                             status |-> result.status, value |-> result.value,
                             page |-> page])
    /\ opName' = "none"
    /\ opLoc' = "none"
    /\ opTimeout' = NoTimeout
    /\ opFlag' = FALSE
    /\ opText' = NoText
    /\ waitFor' = "none"
    /\ waitKind' = "none"
    /\ waitLoc' = "none"
    /\ endTime' = 0
    /\ now' = 0
    /\ lastSeen' = "none"
    /\ sawTrue' = FALSE
    /\ acts' = <<>>
    /\ obs' = {}
    /\ result' = NoResult
    /\ fault' = "none"
    /\ log' = <<>>
    /\ ppc' = "idle"
    /\ UNCHANGED <<factoryVars, fsVars, testVars, scanVars, page, uval, pval>>

\* one open, configured session, handed to the test by the driver fixture
OneOpenSession ==
    /\ sess = << [NewSession("firefox", 1) EXCEPT !.configured = TRUE, !.yielded = TRUE] >>
    /\ fpc = "test"
    /\ testNo = 1
    /\ browser = "firefox"
    /\ browser_name = "firefox"
    /\ headless = FALSE
    /\ HEADLESS = FALSE
    /\ platform = "posix"
    /\ method = 1
    /\ inFallback = FALSE
    /\ attempts = <<>>
    /\ driver = None
    /\ driver_instance = 1
    /\ created = "returned"
    /\ err = "none"
    /\ rep_call = "absent"
    /\ blocked = {}
    /\ dirs = Prefixes(Dirname(ScreenshotPath))
    /\ files = {}
    /\ call = NoCall

\* the page layer runs on that session, on the unknown application
InitPageSpec ==
    /\ OneOpenSession
    /\ InitPage

\* on the unknown application a test calls any method of the page object
StartPageCall == StartCall(PageObjectOps)

NextPage ==
    \/ StartOperation
    \/ StartIsElementVisible
    \/ Poll
    \/ HelperAct
    \/ OperationEnds
    \/ StartLookup
    \/ Navigate
    \/ PollReadyState
    \/ Find
    \/ FindAll
    \/ Scroll
    \/ StartLogin
    \/ StartPageCall
    \/ LoginEnterUsername
    \/ LoginEnterPassword
    \/ LoginRememberProbe
    \/ LoginRememberClick
    \/ LoginClickButton
    \/ LoginSettle
    \/ LogoutFirstClick
    \/ LogoutSettle
    \/ LogoutSecondClick
    \/ ClearUsername
    \/ ClearPassword
    \/ GetFieldValue

SpecPage == InitPageSpec /\ [][NextPage]_vars

\* the steps of a call that has begun: the test thread goes on from one
\* statement to the next whenever the browser call it made has returned
Running ==
    \/ Poll
    \/ HelperAct
    \/ OperationEnds
    \/ Navigate
    \/ PollReadyState
    \/ Find
    \/ FindAll
    \/ Scroll
    \/ LoginEnterUsername
    \/ LoginEnterPassword
    \/ LoginRememberProbe
    \/ LoginRememberClick
    \/ LoginClickButton
    \/ LoginSettle
    \/ LogoutFirstClick
    \/ LogoutSettle
    \/ LogoutSecondClick
    \/ ClearUsername
    \/ ClearPassword
    \/ GetFieldValue

\* the same tests, every browser call of which returns
SpecPageLive == SpecPage /\ WF_vars(Running)

-----------------------------------------------------------------------------
(* Tests that log in and out of the application *)

\* login_and_navigate has brought the browser to the login form
InitSession ==
    /\ OneOpenSession
    /\ InitOp
    /\ page = "login_form"
    /\ uval \in Texts
    /\ pval \in Texts

StartLogout == StartCall({"logout"})

NextSession ==
    \/ StartLogin
    \/ StartLogout
    \/ LoginEnterUsername
    \/ LoginEnterPassword
    \/ LoginRememberProbe
    \/ LoginRememberClick
    \/ LoginClickButton
    \/ LoginSettle
    \/ LogoutFirstClick
    \/ LogoutSettle
    \/ LogoutSecondClick
    \/ Poll
    \/ CallReturns

SpecSession == InitSession /\ [][NextSession]_vars

-----------------------------------------------------------------------------
(* Tests that fill, clear and read the login form *)

\* the login form is displayed; its fields hold whatever was typed before
InitForm ==
    /\ OneOpenSession
    /\ InitOp
    /\ page = "login_form"
    /\ uval \in Texts
    /\ pval \in Texts

StartFormCall == StartCall(FieldOps)

NextForm ==
    \/ StartFormCall
    \/ LoginEnterUsername
    \/ LoginEnterPassword
    \/ ClearUsername
    \/ ClearPassword
    \/ GetFieldValue
    \/ CallReturns

SpecForm == InitForm /\ [][NextForm]_vars

-----------------------------------------------------------------------------
(* Tests that type into the login form with enter_text *)

\* a test calls enter_text(locator, text, clear_first) on a field of the form
StartEnterText ==
    /\ ppc = "idle"
    /\ Len(hist) < MaxCalls
    /\ \E loc \in {"USERNAME_INPUT", "PASSWORD_INPUT"}, text \in Texts,
          clear_first \in BOOLEAN :
         /\ opName' = "enter_text"
         /\ opLoc' = loc
         /\ opFlag' = clear_first
         /\ opText' = IF loc = "PASSWORD_INPUT" THEN [NoText EXCEPT !.password = text]
                      ELSE [NoText EXCEPT !.username = text]
         /\ BeginWait(WaitKindOf("enter_text"), loc, EffectiveTimeout(NoTimeout), "op", 0)
    /\ opTimeout' = NoTimeout
    /\ now' = 0
    /\ lastSeen' = "none"
    /\ acts' = <<>>
    /\ obs' = {}
    /\ result' = NoResult
    /\ fault' = "none"
    /\ log' = <<>>
    /\ UNCHANGED <<factoryVars, fsVars, testVars, scanVars, page, uval, pval, hist>>

NextType ==
    \/ StartEnterText
    \/ Poll
    \/ HelperAct
    \/ CallReturns

SpecType == InitForm /\ [][NextType]_vars

-----------------------------------------------------------------------------
(* Tests that ask which message is displayed *)

NextErrorCheck ==
    \/ StartErrorCheck
    \/ ErrNotificationPresent
    \/ ErrNotificationRead
    \/ ErrScanPattern
    \/ ErrScanElement
    \/ StartSuccessMessage
    \/ GetSuccessMessage
    \/ OperationEnds

SpecErrorCheck == InitPageSpec /\ [][NextErrorCheck]_vars

-----------------------------------------------------------------------------
(* TestLogin.test_sql_injection_protection *)

\* Config.SQL_INJECTION_PAYLOADS, as sequences of tokens
SqlPayloads == << <<"'", "OR", "'1'='1">>, <<"';", "DROP", "TABLE", "users;", "--">> >>

\* the messages the application may display, as sequences of words
Messages == { <<>>, <<"Invalid", "credentials">>, <<"SQL", "syntax", "error">>,
              <<"Table", "users", "updated">> }

ElementViews ==
    {NoElement} \cup { ElementView(st, m) : st \in {"hidden", "displayed"}, m \in Messages }

\* what the page can display after a login attempt
Views == [logged : BOOLEAN, notice : ElementViews, alert : ElementViews]

\* str.lower() on a word
LowerWord(w) ==
    CASE w = "Invalid" -> "invalid"
      [] w = "SQL" -> "sql"
      [] w = "Table" -> "table"
      [] OTHER -> w

\* str.lower() on a message
Lower(m) == [i \in 1..Len(m) |-> LowerWord(m[i])]

sensitive_keywords == {"sql", "database", "table", "select", "insert", "delete", "update"}

\* the keywords that are substrings of a word
KeywordsIn(w) ==
    CASE w = "updated" -> {"update"}
      [] w \in sensitive_keywords -> {w}
      [] OTHER -> {}

\* keyword in message
In(keyword, m) == \E i \in 1..Len(m) : keyword \in KeywordsIn(m[i])

\* element.text: the visible text of the element
TextOf(el) == IF el.st = "displayed" THEN el.text ELSE <<>>

\* is_error_message_displayed: the notification element, then the elements
\* of conventional error / alert styling
is_error_message_displayed(v) ==
    \/ v.notice.st = "displayed" /\ TextOf(v.notice) # <<>>
    \/ v.alert.st = "displayed" /\ TextOf(v.alert) # <<>>

\* is_logged_in: PRODUCT_LOGO is displayed
is_logged_in(v) == v.logged

\* get_error_message: the text of the notification element, "" without it
get_error_message(v) == IF v.notice.st = "absent" THEN <<>> ELSE TextOf(v.notice)

\* the assertions of one iteration of the test
AssertionsHold(v) ==
    LET error_displayed == is_error_message_displayed(v)
        user_logged_in == is_logged_in(v)
        error_message == Lower(get_error_message(v))
    IN /\ error_displayed \/ ~user_logged_in
       /\ ~user_logged_in
       /\ \A keyword \in sensitive_keywords : ~In(keyword, error_message)

\* a displayed element shows an SQL keyword
Echoes(el) ==
    el.st = "displayed" /\ \E keyword \in sensitive_keywords : In(keyword, Lower(el.text))

\* the session is not logged in and no displayed message shows an SQL keyword
Clean(v) == ~v.logged /\ ~Echoes(v.notice) /\ ~Echoes(v.alert)

\* login_page.login(username=sql_payload["username"], password=sql_payload["password"])
TestCallsLogin ==
    /\ tpc = "login"
    /\ ppc = "idle"
    /\ tpc' = "in_login"
    /\ opName' = "login"
    /\ opText' = [username |-> SqlPayloads[payloadNo], password |-> <<"p">>]
    /\ opFlag' = FALSE
    /\ opLoc' = "none"
    /\ opTimeout' = NoTimeout
    /\ ppc' = FirstStep("login")
    /\ now' = 0
    /\ lastSeen' = "none"
    /\ sawTrue' = FALSE
    /\ acts' = <<>>
    /\ obs' = {}
    /\ result' = NoResult
    /\ fault' = "none"
    /\ log' = <<>>
    /\ shown' = NoView
    /\ UNCHANGED <<factoryVars, fsVars, scanVars, payloadNo, verdict, clean, page, uval, pval, hist,
                   waitFor, waitKind, waitLoc, endTime>>

\* login raised: the test fails with the exception.  login returned: the test
\* reads is_error_message_displayed(), is_logged_in() and get_error_message()
\* off the page the application answered with and makes its assertions; when
\* they hold it calls clear_login_form().
TestChecks ==
    /\ tpc = "in_login"
    /\ ppc = "done"
    /\ IF result.status = "raised"
       THEN /\ tpc' = "end"
            /\ verdict' = "failed"
            /\ UNCHANGED <<shown, clean, opName, opText, ppc, result, acts, obs, now, fault,
                           log, lastSeen, sawTrue>>
       ELSE \E v \in Views :
              /\ shown' = v
              /\ clean' = (clean /\ Clean(v))
              /\ IF AssertionsHold(v)
                 THEN /\ tpc' = "in_clear"
                      /\ verdict' = verdict
                      /\ opName' = "clear_login_form"
                      /\ opText' = NoText
                      /\ ppc' = FirstStep("clear_login_form")
                      /\ result' = NoResult
                      /\ acts' = <<>>
                      /\ obs' = {}
                      /\ now' = 0
                      /\ fault' = "none"
                      /\ log' = <<>>
                      /\ lastSeen' = "none"
                      /\ sawTrue' = FALSE
                 ELSE /\ tpc' = "end"
                      /\ verdict' = "failed"
                      /\ UNCHANGED <<opName, opText, ppc, result, acts, obs, now, fault,
                                     log, lastSeen, sawTrue>>
    /\ UNCHANGED <<factoryVars, fsVars, scanVars, payloadNo, page, uval, pval, hist, opLoc,
                   opTimeout, opFlag, waitFor, waitKind, waitLoc, endTime>>

\* clear_login_form is over: the test fails with its exception, goes on with
\* the next payload, or passes after the last one
TestNextPayload ==
    /\ tpc = "in_clear"
    /\ ppc = "done"
    /\ IF result.status = "raised"
       THEN tpc' = "end" /\ verdict' = "failed" /\ payloadNo' = payloadNo
       ELSE IF payloadNo < Len(SqlPayloads)
       THEN tpc' = "login" /\ verdict' = verdict /\ payloadNo' = payloadNo + 1
       ELSE tpc' = "end" /\ verdict' = "passed" /\ payloadNo' = payloadNo
    /\ opName' = "none"
    /\ opLoc' = "none"
    /\ opTimeout' = NoTimeout
    /\ opFlag' = FALSE
    /\ opText' = NoText
    /\ waitFor' = "none"
    /\ waitKind' = "none"
    /\ waitLoc' = "none"
    /\ endTime' = 0
    /\ now' = 0
    /\ lastSeen' = "none"
    /\ sawTrue' = FALSE
    /\ acts' = <<>>
    /\ obs' = {}
    /\ result' = NoResult
    /\ fault' = "none"
    /\ log' = <<>>
    /\ ppc' = "idle"
    /\ UNCHANGED <<factoryVars, fsVars, scanVars, shown, clean, page, uval, pval, hist>>

\* the test begins on the login page of the unknown application
InitSqlTest ==
    /\ OneOpenSession
    /\ opName = "none"
    /\ opLoc = "none"
    /\ opTimeout = NoTimeout
    /\ opFlag = FALSE
    /\ ppc = "idle"
    /\ waitFor = "none"
    /\ waitKind = "none"
    /\ waitLoc = "none"
    /\ endTime = 0
    /\ now = 0
    /\ lastSeen = "none"
    /\ sawTrue = FALSE
    /\ acts = <<>>
    /\ obs = {}
    /\ result = NoResult
    /\ opText = NoText
    /\ hist = <<>>
    /\ fault = "none"
    /\ log = <<>>
    /\ dom = NoDom
    /\ scan = NoScan
    /\ page = "any"
    /\ uval = <<>>
    /\ pval = <<>>
    /\ tpc = "login"
    /\ payloadNo = 1
    /\ verdict = "running"
    /\ shown = NoView
    /\ clean = TRUE

NextSqlTest ==
    \/ TestCallsLogin
    \/ LoginEnterUsername
    \/ LoginEnterPassword
    \/ LoginClickButton
    \/ LoginSettle
    \/ Poll
    \/ TestChecks
    \/ ClearUsername
    \/ ClearPassword
    \/ TestNextPayload

SpecSqlTest == InitSqlTest /\ [][NextSqlTest]_vars

-----------------------------------------------------------------------------
(* Claims about the page interaction layer and login *)

\* C1 as stated: login never raises to its caller; it always returns a boolean.
C1_LoginNeverRaises ==
    (opName = "login" /\ ppc = "done") =>
        result.status = "returned" /\ result.value \in BOOLEAN

\* the condition each wait operation promises, on the element state it saw
Satisfies(op, s) ==
    CASE op = "wait_for_element_present" -> s \in {"hidden", "disabled", "clickable"}
      [] op = "wait_for_element_visible" -> s \in {"disabled", "clickable"}
      [] op = "wait_for_element_clickable" -> s = "clickable"

\* C8: a wait operation takes Config.EXPLICIT_WAIT when no timeout is given,
\* returns the element at the first poll that finds its condition true
\* (present; visible; visible and enabled), never returns otherwise, and
\* raises TimeoutException only once the timeout has elapsed.
C8_WaitContract ==
    opName \in WaitOps =>
        /\ endTime = (IF opTimeout = NoTimeout THEN EXPLICIT_WAIT ELSE opTimeout)
                         * TicksPerSecond
        /\ ppc = "wait" => ~sawTrue /\ result = NoResult
        /\ result.status = "returned" =>
              /\ sawTrue
              /\ Satisfies(opName, lastSeen)
              /\ result.value = opLoc
        /\ result.status = "raised" =>
              /\ result.exc = "TimeoutException"
              /\ ~sawTrue
              /\ now > endTime

\* a wait with the default timeout returns its element after at least one
\* poll that found the condition false
C8_Witness ==
    /\ opName = "wait_for_element_clickable"
    /\ opTimeout = NoTimeout
    /\ result.status = "returned"
    /\ now > 0

\* C9 as stated: a wait with timeout T whose condition never becomes true
\* returns control no earlier than T and no later than T plus one poll interval.
C9_TimeoutWithinOnePoll ==
    (opName \in WaitOps /\ result.status = "raised") =>
        /\ now >= Ticks(EffectiveTimeout(opTimeout))
        /\ now <= Ticks(EffectiveTimeout(opTimeout)) + PollInterval

RequiredCondition(op) == IF op = "click_element" THEN "clickable" ELSE "visible"

\* C10: an action helper acts on its element only after its wait observed the
\* condition (clickable for click_element, visible for enter_text, get_text,
\* get_attribute); when the wait times out nothing is done to the element and
\* TimeoutException reaches the caller.
C10_ActAfterWait ==
    opName \in ActionOps =>
        /\ \A i \in 1..Len(acts) :
              /\ acts[i].loc = opLoc
              /\ [loc |-> opLoc, kind |-> RequiredCondition(opName)] \in obs
        /\ ppc = "wait" => acts = <<>>
        /\ (ppc = "done" /\ obs = {}) =>
              /\ acts = <<>>
              /\ result = Raised("TimeoutException")

\* click_element clicked its element and returned
C10_Witness ==
    /\ opName = "click_element"
    /\ acts = <<Act("click", opLoc)>>
    /\ result.status = "returned"

-----------------------------------------------------------------------------
(* Claims about the login page object *)

\* the wait condition the interaction layer requires before an action
ConditionFor(a) == IF a = "click" THEN "clickable" ELSE "visible"

\* C11 as stated: enter_username, enter_password, click_login_button and the
\* first click of logout act on their element only after a wait observed it
\* visible (for typing) or clickable (for clicking).
C11_DomainActionsWaitFirst ==
    opName \in {"login", "enter_username", "enter_password", "click_login_button",
                "logout"} =>
        \A i \in 1..Len(acts) :
            acts[i].loc \in {"USERNAME_INPUT", "PASSWORD_INPUT", "LOGIN_BUTTON",
                             "LOGOUT_BUTTON"} =>
                [loc |-> acts[i].loc, kind |-> ConditionFor(acts[i].act)] \in obs

\* the operations of the interaction layer
LayerOps == WaitOps \cup ActionOps \cup LookupOps

\* C12 as stated: in the interaction layer every failure inside an operation
\* (a wait timing out, a missing element, a failing action) reaches the caller
\* as an exception, and no action is attempted twice.
C12_NoFailureSwallowed ==
    opName \in LayerOps =>
        /\ (ppc = "done" /\ fault # "none") => result.status = "raised"
        /\ \A i, j \in 1..Len(acts) : acts[i] = acts[j] => i = j

IsPrefix(a, b) == Len(a) <= Len(b) /\ a = SubSeq(b, 1, Len(a))

\* the element actions of a login, with or without the click on the checkbox
LoginActs(with_checkbox) ==
    ActSeq(<<"clear", "send_keys">>, "USERNAME_INPUT")
      \o ActSeq(<<"clear", "send_keys">>, "PASSWORD_INPUT")
      \o (IF with_checkbox THEN <<Act("click", "REMEMBER_ME_CHECKBOX")>> ELSE <<>>)
      \o <<Act("click", "LOGIN_BUTTON")>>

CheckboxClicked == \E i \in 1..Len(acts) : acts[i] = Act("click", "REMEMBER_ME_CHECKBOX")
ButtonClicked == \E i \in 1..Len(acts) : acts[i] = Act("click", "LOGIN_BUTTON")

\* username, password, (checkbox,) button in this order; the marker wait begins
\* only after the click and the settle delay; True exactly when the marker was
\* observed visible
LoginOrder ==
    /\ IsPrefix(acts, LoginActs(CheckboxClicked))
    /\ waitFor = "marker" =>
          /\ ButtonClicked
          /\ now >= Ticks(SETTLE_DELAY)
          /\ waitLoc = "PRODUCT_LOGO"
    /\ (ppc = "done" /\ result.status = "returned") =>
          /\ waitFor = "marker"
          /\ result.value = ([loc |-> "PRODUCT_LOGO", kind |-> "visible"] \in obs)

\* C13 as stated: login types the username, types the password, clicks the
\* checkbox if and only if remember_me is true, clicks the button, waits the
\* settle delay and returns True exactly when the marker is observed visible.
C13_LoginStepsCheckboxIff ==
    opName = "login" =>
        /\ LoginOrder
        /\ ButtonClicked => (CheckboxClicked <=> opFlag)

\* C13, amended: as above, but the checkbox is clicked only if remember_me is
\* true, and then exactly when the probe found it and it became clickable.
C13_LoginSteps ==
    opName = "login" =>
        /\ LoginOrder
        /\ CheckboxClicked =>
              /\ opFlag
              /\ [loc |-> "REMEMBER_ME_CHECKBOX", kind |-> "clickable"] \in obs
        /\ (ButtonClicked /\ [loc |-> "REMEMBER_ME_CHECKBOX", kind |-> "clickable"] \in obs)
              => CheckboxClicked

\* a login with remember_me went through every step and returned True
C13_Witness ==
    /\ opName = "login"
    /\ opFlag
    /\ acts = LoginActs(TRUE)
    /\ ppc = "done"
    /\ result = Returned(TRUE)

\* the two clicks of a logout
LogoutActs == <<Act("click", "LOGOUT_BUTTON"), Act("click", "LOGOUT_SECOND_BUTTON")>>

\* C14: logout clicks the first control, clicks the second only after it was
\* observed visible and only after the first click, and returns True exactly
\* when the username field was observed visible after the second click, False
\* in every other case.
C14_LogoutTwoStage ==
    opName = "logout" =>
        /\ IsPrefix(acts, LogoutActs)
        /\ Len(acts) = 2 => [loc |-> "LOGOUT_SECOND_BUTTON", kind |-> "visible"] \in obs
        /\ [loc |-> "USERNAME_INPUT", kind |-> "visible"] \in obs => Len(acts) = 2
        /\ ppc = "done" =>
              /\ result.status = "returned"
              /\ result.value = ([loc |-> "USERNAME_INPUT", kind |-> "visible"] \in obs)

\* a logout clicked both controls and saw the username field again
C14_Witness ==
    /\ opName = "logout"
    /\ acts = LogoutActs
    /\ ppc = "done"
    /\ result = Returned(TRUE)

\* C15: logout on a session that is already logged out never raises, however
\* often it is called: each call returns a boolean.
C15_RepeatedLogoutNeverRaises ==
    /\ \A i \in 1..Len(hist) :
          hist[i].op = "logout" =>
              /\ hist[i].status = "returned"
              /\ hist[i].value \in BOOLEAN
    /\ (opName = "logout" /\ ppc = "done") =>
          /\ result.status = "returned"
          /\ result.value \in BOOLEAN

\* logout was called three times in a row on the login form
C15_Witness ==
    /\ Len(hist) = 3
    /\ \A i \in 1..3 : hist[i].op = "logout" /\ hist[i].page = "login_form"

\* C16: on the application that shows the marker and the logout controls
\* after a valid login and the login form after the confirmed logout, a login
\* with valid credentials followed at once by logout ends with logout
\* returning True and the login form displayed.
C16_LoginThenLogout ==
    \A i \in 1..Len(hist) :
        (/\ i > 1
         /\ hist[i].op = "logout"
         /\ hist[i - 1].op = "login"
         /\ hist[i - 1].text = ValidCredentials) =>
            /\ hist[i].status = "returned"
            /\ hist[i].value = TRUE
            /\ hist[i].page = "login_form"
            /\ Shows(hist[i].page, "USERNAME_INPUT") = {"clickable"}

\* a valid login that returned True was followed by a logout
C16_Witness ==
    /\ Len(hist) >= 2
    /\ hist[1].op = "login"
    /\ hist[1].text = ValidCredentials
    /\ hist[1].status = "returned"
    /\ hist[1].value = TRUE
    /\ hist[2].op = "logout"

Getters == {"get_username_field_value", "get_password_field_value"}

\* the calls between the i-th and the j-th are all among ops
OnlyBetween(i, j, ops) == \A k \in (i + 1)..(j - 1) : hist[k].op \in ops

\* C17: whatever the fields held, after clear_login_form both
\* get_username_field_value and get_password_field_value return "".
C17_ClearThenReadEmpty ==
    \A i, j \in 1..Len(hist) :
        (/\ i < j
         /\ hist[i].op = "clear_login_form"
         /\ hist[i].status = "returned"
         /\ hist[j].op \in Getters
         /\ OnlyBetween(i, j, Getters)) =>
            /\ hist[j].status = "returned"
            /\ hist[j].value = <<>>

\* a username was typed, the form cleared, and the username field read
C17_Witness ==
    /\ Len(hist) = 3
    /\ hist[1].op = "enter_username"
    /\ hist[1].text.username # <<>>
    /\ hist[1].status = "returned"
    /\ hist[2].op = "clear_login_form"
    /\ hist[2].status = "returned"
    /\ hist[3].op = "get_username_field_value"

\* C18: on the displayed login form, after enter_username(u) the username
\* field reads exactly u and after enter_password(p) the password field reads
\* exactly p, whatever the fields held before and whatever is typed into the
\* other field meanwhile.
C18_CredentialsNotMutated ==
    \A i, j \in 1..Len(hist) :
        (i < j /\ hist[i].status = "returned") =>
            /\ (/\ hist[i].op = "enter_username"
                /\ hist[j].op = "get_username_field_value"
                /\ OnlyBetween(i, j, Getters \cup {"enter_password"})) =>
                   hist[j].value = hist[i].text.username
            /\ (/\ hist[i].op = "enter_password"
                /\ hist[j].op = "get_password_field_value"
                /\ OnlyBetween(i, j, Getters \cup {"enter_username"})) =>
                   hist[j].value = hist[i].text.password

\* a username and then a password were typed, and the username field reads
\* the username that was typed
C18_Witness ==
    /\ Len(hist) = 3
    /\ hist[1].op = "enter_username"
    /\ hist[1].text.username # <<>>
    /\ hist[2].op = "enter_password"
    /\ hist[2].text.password # <<>>
    /\ hist[3].op = "get_username_field_value"
    /\ hist[3].value = hist[1].text.username
    /\ uval # <<>>
    /\ pval # <<>>

\* C19: click_remember_me and click_forgot_password always return normally,
\* whether the optional element is absent, the presence check fails, the
\* element never becomes clickable or the click fails; they click at most
\* once, only the element they waited for, and not at all when the element is
\* absent or the presence check failed.
C19_ProbesNeverRaise ==
    opName \in ProbeOps =>
        /\ ppc = "done" => result = Returned("None")
        /\ acts # <<>> =>
              /\ acts = <<Act("click", ProbeLoc(opName))>>
              /\ [loc |-> ProbeLoc(opName), kind |-> "clickable"] \in obs
        /\ fault \in {"missing", "probe"} => acts = <<>> /\ ppc = "done"

\* the click of a probe failed and the probe returned
C19_Witness ==
    /\ opName = "click_forgot_password"
    /\ acts = <<Act("click", "FORGOT_PASSWORD_LINK")>>
    /\ fault = "action"
    /\ ppc = "done"
    /\ result.status = "returned"

\* C20 as stated: test_sql_injection_protection passes only if, for every
\* payload, the session was not logged in and no displayed message (the
\* notification or any other displayed error element) showed an SQL keyword.
C20_SqlTestPassesOnlyIfClean ==
    verdict = "passed" => clean

-----------------------------------------------------------------------------
(* Claims about create_driver *)

HasArgument(args, a) == \E j \in 1..Len(args) : args[j] = a

\* C25 as stated: every launch of create_driver, for every browser kind and
\* every fallback strategy, is started with '--headless' among its arguments
\* exactly when the headless flag is true, whatever Config.HEADLESS is.
C25_HeadlessIffFlag ==
    \A i \in 1..Len(attempts) :
        HasArgument(attempts[i].args, "--headless") <=> headless

\* the browser kind a name spells, in whatever case
KindSpelled(name) ==
    CASE name \in {"chrome", "Chrome"} -> "chrome"
      [] name \in {"firefox", "FIREFOX"} -> "firefox"
      [] name = "edge" -> "edge"
      [] name = "safari" -> "safari"
      [] OTHER -> "none"

\* the sessions the create_driver call under way has started
StartedByCall == { h \in 1..Len(sess) : sess[h].test = testNo }

\* C27: create_driver takes the browser name in any case: a name that spells
\* chrome, firefox, edge or safari is never refused as unsupported and the
\* launches are of that kind (or the Edge fallback of chrome); for any other
\* name create_driver fails with
\* the unsupported-browser error, having started no browser and attempted no
\* launch, the Edge fallback included.
C27_UnsupportedBrowser ==
    fpc # "idle" =>
        IF KindSpelled(browser_name) # "none"
        THEN /\ err # "unsupported"
             /\ \A i \in 1..Len(attempts) :
                   \/ attempts[i].kind = KindSpelled(browser_name)
                   \/ attempts[i].kind = "edge" /\ KindSpelled(browser_name) = "chrome"
        ELSE /\ fpc \in {"except", "raise", "raised"}
             /\ err = "unsupported"
             /\ created # "returned"
             /\ attempts = <<>>
             /\ StartedByCall = {}
             /\ ~inFallback

\* create_driver raised the unsupported-browser error
C27_Witness ==
    /\ KindSpelled(browser_name) = "none"
    /\ created = "raised"
    /\ err = "unsupported"

\* C28 as stated: whenever create_driver raises, no browser that it started
\* during the call is left running: every session started by a strategy whose
\* later step failed (smoke navigation, implicit wait, maximizing the window)
\* has been quit before the error reaches the caller.
C28_NoSessionLeftRunning ==
    created = "raised" => \A h \in StartedByCall : sess[h].st # "open"

\* the sessions of a kind that the current call started
StartedOfKind(kind) == { h \in StartedByCall : sess[h].kind = kind }

\* how Chrome creation failed, read off what the call did: no launch at all
\* (the options or the profile directory), four failed strategies, a session
\* that failed the smoke navigation, or one that failed to be configured
ChromeFailure ==
    IF \E h \in StartedOfKind("chrome") : sess[h].verified THEN "configure"
    ELSE IF StartedOfKind("chrome") # {} THEN "verify"
    ELSE IF Len(ChromeAttempts) = LastMethod THEN "launch"
    ELSE "options"

ChromeCreated == \E h \in StartedOfKind("chrome") : sess[h].configured
EdgeCreated == \E h \in StartedOfKind("edge") : sess[h].configured

\* C29: asked for chrome, a failed Chrome creation is followed by exactly one
\* Edge launch; when Edge is created its session is returned and nothing is
\* raised, otherwise the failure raised is Chrome's own, not Edge's. Asked for
\* any other kind, only that kind is ever launched.
C29_EdgeFallbackOnce ==
    /\ Len(EdgeAttempts) <= (IF browser \in {"chrome", "edge"} THEN 1 ELSE 0)
    /\ browser # "chrome" =>
          \A i \in 1..Len(attempts) : attempts[i].kind = browser
    /\ browser = "chrome" /\ created \in {"returned", "raised"} =>
          IF ChromeCreated
          THEN /\ EdgeAttempts = <<>>
               /\ created = "returned"
               /\ sess[driver_instance].kind = "chrome"
          ELSE /\ Len(EdgeAttempts) = 1
               /\ attempts[Len(attempts)].kind = "edge"
               /\ IF EdgeCreated
                  THEN /\ created = "returned"
                       /\ sess[driver_instance].kind = "edge"
                       /\ StartedOfKind("edge") = {driver_instance}
                  ELSE /\ created = "raised"
                       /\ driver_instance = None
                       /\ err = ChromeFailure

\* create_driver('chrome') has raised after Chrome started but failed its smoke
\* navigation and the one Edge launch failed too
C29_Witness ==
    /\ browser = "chrome"
    /\ created = "raised"
    /\ err = "verify"
    /\ Len(EdgeAttempts) = 1
    /\ ~EdgeAttempts[1].ok

-----------------------------------------------------------------------------
(* Claims about logging, screenshots and message detection *)

\* a wait of the operation running ends by timeout in this step
WaitTimesOut ==
    \/ ppc = "wait" /\ ppc' # "wait" /\ ~sawTrue'
    \/ ppc = "load_wait" /\ ppc' = "done" /\ fault' = "timeout"

\* C22 as stated: the fixture's teardown captures a screenshot of a session
\* that is still alive if and only if its test failed, a failure in the setup
\* phase after the session was created included; none is captured for a test
\* that passed.
C22_ScreenshotIffFailed ==
    \A s \in 1..Len(sess) :
        (sess[s].yielded /\ sess[s].fixtureQuits = 1 /\ sess[s].st = "closed") =>
            (sess[s].shot <=> sess[s].outcome # "passed")

\* the contents of the field at loc
FieldValue(loc, u, p) == IF loc = "PASSWORD_INPUT" THEN p ELSE u

\* C24: enter_text(locator, text, clear_first) clears the field before typing
\* exactly when clear_first is true: afterwards the field holds text when
\* clear_first is true and the previous value followed by text when it is
\* false; the other field is left alone and no clear follows the typing.
C24_EnterTextClearsFirst ==
    [][(opName = "enter_text" /\ ppc = "act" /\ ppc' = "done"
            /\ result'.status = "returned") =>
          LET text == FieldValue(opLoc, opText.username, opText.password)
              before == FieldValue(opLoc, uval, pval)
              after == FieldValue(opLoc, uval', pval')
          IN /\ after = (IF opFlag THEN text ELSE before \o text)
             /\ opLoc = "USERNAME_INPUT" => pval' = pval
             /\ opLoc = "PASSWORD_INPUT" => uval' = uval
             /\ acts' = (IF opFlag
                         THEN <<Act("clear", opLoc), Act("send_keys", opLoc)>>
                         ELSE <<Act("send_keys", opLoc)>>)]_vars

\* enter_text without clear_first typed a text after the text the username
\* field held
C24_Witness ==
    /\ opName = "enter_text"
    /\ opLoc = "USERNAME_INPUT"
    /\ ~opFlag
    /\ ppc = "done"
    /\ result.status = "returned"
    /\ opText.username # <<>>
    /\ Len(uval) = 2

\* a text with a character that is not white space
NonBlank(t) == \E k \in 1..Len(t) : t[k] # " "

\* what the page shows while is_error_message_displayed runs
NoticeShown == dom.notice.st = "displayed" /\ NonBlank(dom.notice.text)
PatternShown ==
    \E i \in 1..Len(dom.by) : \E j \in 1..Len(dom.by[i]) :
        dom.by[i][j].st = "displayed" /\ NonBlank(dom.by[i][j].text)

\* the patterns the scan has queried, in order
PatternsQueried ==
    LET q == SelectSeq(acts, LAMBDA a : a.act = "find_elements")
    IN [k \in 1..Len(q) |-> q[k].loc]

\* a browser call of the notification check raised after the element was found
NotificationCheckRaised == Seen("NOTIFICATION_MESSAGE", "raised") \in obs

\* no browser call of the method failed
NoCallFailed == \A o \in obs : o.kind = "displayed"

\* never raises; the patterns are scanned in their order and only after the
\* notification check did not succeed; a failure in one pattern does not stop
\* the scan of the remaining ones
ErrorCheckOrder ==
    /\ IsPrefix(PatternsQueried, error_patterns)
    /\ PatternsQueried # <<>> =>
          /\ acts[1] = Act("find_element", "NOTIFICATION_MESSAGE")
          /\ Seen("NOTIFICATION_MESSAGE", "displayed") \notin obs
          /\ ~NoticeShown \/ Seen("NOTIFICATION_MESSAGE", "probe_failed") \in obs
    /\ ppc = "done" =>
          /\ result.status = "returned"
          /\ result.value \in BOOLEAN
          /\ (result.value = FALSE /\ ~NotificationCheckRaised) =>
                 PatternsQueried = error_patterns

C26_SuccessMessageReturned ==
    (opName = "get_success_message" /\ ppc = "done") =>
        /\ result.status = "returned"
        /\ NoticeShown => result.value = dom.notice.text
        /\ result.value = <<>> => ~NoticeShown

\* C21 as stated: every wait that ends by timeout (in wait_for_element_present,
\* wait_for_element_visible, wait_for_element_clickable, is_element_visible
\* and wait_for_page_load) writes a line to the log that names the locator
\* waited for (where there is one) and the seconds waited.
C21_TimeoutsLogged ==
    [][WaitTimesOut =>
          /\ Len(log') = Len(log) + 1
          /\ log'[Len(log')].loc = (IF ppc = "wait" THEN waitLoc ELSE "none")
          /\ log'[Len(log')].seconds =
                 (IF ppc = "wait" THEN WaitSeconds ELSE PAGE_LOAD_TIMEOUT)]_vars

\* the longest a find_element and a wait of the given timeout can take, in ticks
MaxFind == Ticks(IMPLICIT_WAIT)
MaxWait(seconds) == Ticks(seconds) + MaxFind + PollInterval

\* the browser calls that act on the page, and the time, a login or a logout
\* can take at most: login types into two fields, probes and clicks the
\* checkbox, clicks the button, sleeps and waits once; logout clicks, sleeps,
\* waits, clicks and waits once more
MaxActs(op) == IF op = "login" THEN 6 ELSE 2
MaxTicks(op) ==
    IF op = "login"
    THEN 4 * MaxFind + MaxWait(EXPLICIT_WAIT) + Ticks(SETTLE_DELAY) + MaxWait(MARKER_TIMEOUT)
    ELSE MaxFind + Ticks(SETTLE_DELAY) + 2 * MaxWait(MARKER_TIMEOUT)

BoundedCalls ==
    opName \in {"login", "logout"} => Len(acts) <= MaxActs(opName) /\ now <= MaxTicks(opName)

\* C30: every call of the page layer that has begun (a wait operation, a
\* helper, login, logout) comes to its return or its raise, provided each
\* browser call it makes returns; login and logout make a bounded number of
\* browser calls and spend a bounded time in their sleeps and waits.
C30_BlockingCallsTerminate ==
    /\ []BoundedCalls
    /\ (ppc # "idle") ~> (ppc = "done")

\* login has returned after its marker wait polled until the timeout
C30_Witness ==
    /\ opName = "login"
    /\ ppc = "done"
    /\ waitFor = "marker"
    /\ fault = "timeout"
    /\ now > endTime

=============================================================================
